---- MODULE Spec2Model ----
(***************************************************************************)
(* Model of the Git layer of the vault (src-tauri/src/git.rs) and of the   *)
(* commands that drive it (src-tauri/src/commands.rs).                     *)
(*                                                                         *)
(* A repository is its object store (commits), its branch refs, HEAD, the  *)
(* on-disk index, the working tree, the remote tracking ref and the remote *)
(* section of .git/config.  The remote repository is the tip of its branch.*)
(* Every public operation is one action: the operations are synchronous    *)
(* and the caller runs one at a time.                                      *)
(***************************************************************************)
EXTENDS Integers, Sequences, FiniteSets, TLC

\* ---------------------------------------------------------------- bounds
MaxCommits == 5        \* commit objects that may exist (local and remote)
MaxContent == 2        \* distinct file contents (blob ids) 1..MaxContent
MaxIndex   == 4        \* entries the on-disk index may hold
MaxEdits   == 2        \* changes the user makes to the working tree
MaxAdvances == 1       \* commits another device publishes on the remote
MaxOps     == 3        \* operations of the Git layer the application calls
MaxFaults  == 1        \* calls during which the environment fails
MaxCommitsTwo == 6     \* commit objects when a sync rebases, squashes and rebases
MaxSessionOps == 5     \* operations when a rebase session is resolved and continued

\* ---------------------------------------------------------------- paths
VisiblePaths == {"a", "b"}
HiddenPaths  == {".h"}
AllPaths     == VisiblePaths \cup HiddenPaths

\* byte order of the path names, as sort_entries and the tree sort use it
PathRank(p) == CASE p = ".h" -> 0 [] p = "a" -> 1 [] p = "b" -> 2

\* WalkDir filter_entry: names starting with '.' are skipped
IsHidden(p) == p \in HiddenPaths

Contents == 1..MaxContent
ContentsOf(p) == IF p \in HiddenPaths THEN {1} ELSE Contents
Absent   == 0

BranchNames == {"main", "draft", "conflict_1", "conflict_2"}
ConflictNames == {"conflict_1", "conflict_2"}
Detached == "DETACHED"

VARIABLES
    commits,    \* object store contents: commit id i is commits[i] = [tree, parent]
    have,       \* ids of the commit objects present in the local object store
    refs,       \* refs/heads/<name> -> commit id, 0 when the ref does not exist
    head,       \* HEAD: a branch name (symbolic) or Detached
    headId,     \* the commit id HEAD holds when detached, else 0
    index,      \* .git/index on disk: sequence of [path, oid]
    wt,         \* working tree: path -> content, Absent when the file is missing
    tracking,   \* refs/remotes/origin/main -> commit id, 0 when it does not exist
    rebase,     \* the open rebase session [branch, orig], NoRebase when none is open
    cfgUrl,     \* url of [remote "origin"] in .git/config, "absent" when not configured
    alt,        \* the remote named "backup": [url, dst, tracking], see NoAlt
    app,        \* the application process and its window, see NoApp
    remoteMain, \* tip of main in the remote repository, 0 when the branch is missing
    ret,        \* what the last operation returned
    orphan,     \* id of the commit object an interrupted commit wrote, 0 when none was
    edits,      \* the number of changes made to the working tree by the user
    advances,   \* the number of commits published on the remote by another device
    ops,        \* the number of operations of the Git layer called so far
    faults      \* the number of calls during which the environment failed

vars == <<commits, have, refs, head, headId, index, wt, tracking, rebase,
          cfgUrl, alt, app, remoteMain, ret, orphan, edits, advances, ops,
          faults>>

\* the repository as one value, so that the steps of an operation compose
Cur == [commits |-> commits, have |-> have, refs |-> refs, head |-> head,
        headId |-> headId, index |-> index, wt |-> wt, tracking |-> tracking,
        rebase |-> rebase, cfgUrl |-> cfgUrl, alt |-> alt,
        remoteMain |-> remoteMain]

\* the repository R becomes the state
Install(R) ==
    /\ commits' = R.commits
    /\ have' = R.have
    /\ refs' = R.refs
    /\ head' = R.head
    /\ headId' = R.headId
    /\ index' = R.index
    /\ wt' = R.wt
    /\ tracking' = R.tracking
    /\ rebase' = R.rebase
    /\ cfgUrl' = R.cfgUrl
    /\ alt' = R.alt
    /\ remoteMain' = R.remoteMain

\* no rebase session.  A session records the branch that is rebased, where
\* it was, the picks that are left (the one that stopped first) and the paths
\* whose index entries are unmerged
NoRebase == [branch |-> "none", orig |-> 0, todo |-> <<>>, unmerged |-> {}]

\* no remote named "backup": url is the url of its section of .git/config,
\* dst the namespace under refs/remotes/ that its fetch refspec writes to,
\* tracking the commit of refs/remotes/backup/main, 0 when it does not exist
NoAlt == [url |-> "absent", dst |-> "none", tracking |-> 0]

\* the process right after start: IS_CLOSING is false, no CloseRequested
\* event waits in the event loop (requests) and none has arrived (seen), the
\* event loop is not inside the callback (loop), no handle_window_close
\* task was spawned, is running or has finished, close is not prevented,
\* the window is open and the process runs
NoApp == [closing |-> FALSE, requests |-> 0, seen |-> 0, loop |-> "idle",
          spawned |-> 0, running |-> 0, finished |-> 0, prevented |-> FALSE,
          window |-> "open", exited |-> FALSE]

Ok(R)  == [ok |-> TRUE, r |-> R]
Err(R) == [ok |-> FALSE, r |-> R]

\* ---------------------------------------------------------------- helpers
\* repo.head_id(): the commit HEAD resolves to, 0 when it resolves to none
head_id(R) == IF R.head = Detached THEN R.headId ELSE R.refs[R.head]

Entry(p, c) == [path |-> p, oid |-> c]

RECURSIVE InsertStable(_, _)
\* place e after every entry whose path is not greater (a stable sort step)
InsertStable(e, s) ==
    IF s = <<>> THEN <<e>>
    ELSE IF PathRank(Head(s).path) <= PathRank(e.path)
         THEN <<Head(s)>> \o InsertStable(e, Tail(s))
         ELSE <<e>> \o s

RECURSIVE sort_entries(_)
\* gix index sort_entries: sort_by on the path, which is a stable sort
sort_entries(s) ==
    IF s = <<>> THEN <<>>
    ELSE InsertStable(s[Len(s)], sort_entries(SubSeq(s, 1, Len(s) - 1)))

RECURSIVE SeqOfSet(_)
SeqOfSet(S) ==
    IF S = {} THEN <<>>
    ELSE LET x == CHOOSE y \in S : \A z \in S : PathRank(y) <= PathRank(z)
         IN <<x>> \o SeqOfSet(S \ {x})

\* step 1 of add_all_files_to_index: the files the directory walk collects
existing_files(R) == {p \in AllPaths : R.wt[p] # Absent /\ ~IsHidden(p)}

\* step 2 of add_all_files_to_index: File::at_or_default opens the index file
\* that is on disk, so the "new" index starts with the entries written by
\* the previous commit
new_index_base(R) == R.index

\* steps 3..6: push one entry per collected file, sort, replace
add_all_files_to_index(R) ==
    LET files  == SeqOfSet(existing_files(R))
        pushed == [i \in 1..Len(files) |-> Entry(files[i], R.wt[files[i]])]
    IN sort_entries(new_index_base(R) \o pushed)

\* create_tree_from_index_entries for root files: one tree entry per index
\* entry, sorted by name (sort_by, stable)
create_tree_from_index_entries(idx) == sort_entries(idx)

\* ---------------------------------------------------------------- branches
\* ensure_draft_branch: create refs/heads/draft from main, else from HEAD.
\* io = TRUE: the write of the ref file fails
ensure_draft_branch(R, io) ==
    IF R.refs["draft"] # 0 THEN Ok(R)
    ELSE LET source_commit_id ==
                 IF R.refs["main"] # 0 THEN R.refs["main"] ELSE head_id(R)
         IN IF source_commit_id = 0 THEN Err(R)
            ELSE IF io THEN Err(R)
            ELSE Ok([R EXCEPT !.refs["draft"] = source_commit_id])

\* switch_to_branch: create the branch from HEAD when it is missing, then
\* write "ref: refs/heads/<branch>" to HEAD.  The working tree and the index
\* are not touched.  io names the write that fails: "none", "ref", "head"
switch_to_branch(R, branch, io) ==
    LET created ==
            IF R.refs[branch] # 0 THEN Ok(R)
            ELSE IF head_id(R) = 0 THEN Err(R)
            ELSE IF io = "ref" THEN Err(R)
            ELSE Ok([R EXCEPT !.refs[branch] = head_id(R)])
    IN IF ~created.ok THEN created
       ELSE IF io = "head" THEN Err(created.r)
       ELSE Ok([created.r EXCEPT !.head = branch, !.headId = 0])

\* get_current_branch: the branch HEAD names, an error when HEAD is detached
get_current_branch(R) == IF R.head = Detached THEN "error" ELSE R.head

\* update_head_ref: write refs/heads/<branch>, then write HEAD.
\* io names the write that fails: "none", "ref", "head"
update_head_ref(R, commit_id, branch_name, io) ==
    IF io = "ref" THEN Err(R)
    ELSE LET R1 == [R EXCEPT !.refs[branch_name] = commit_id]
         IN IF io = "head" THEN Err(R1)
            ELSE Ok([R1 EXCEPT !.head = branch_name, !.headId = 0])

\* ---------------------------------------------------------------- commit
\* ids of the commit objects equal to c.  A commit's id is derived from its
\* content; the timestamp and the message are not modelled, sameStamp says
\* whether they equal those of an existing commit with this tree and parent
SameObjects(R, c) == {i \in 1..Len(R.commits) : R.commits[i] = c}

\* create_commit_object: write the commit with this tree and these parents
\* and return [r, id].  No comparison with the parent's tree is made.
create_commit_object(R, tree_id, parent, sameStamp) ==
    LET c == [tree |-> tree_id, parent |-> parent]
    IN IF sameStamp /\ SameObjects(R, c) # {}
       THEN LET i == CHOOSE j \in SameObjects(R, c) : TRUE
            IN [r |-> [R EXCEPT !.have = @ \cup {i}], id |-> i]
       ELSE [r |-> [R EXCEPT !.commits = Append(@, c),
                             !.have = @ \cup {Len(R.commits) + 1}],
             id |-> Len(R.commits) + 1]

\* the steps of commit_changes at which a failure is injected
CommitFailures == {"none", "ensure", "switch_ref", "switch_head", "index",
                   "tree", "object", "ref", "head", "crash"}

\* a commit that advances whatever branch HEAD names, without going to draft
commit_on_current_branch(R, fail, sameStamp) ==
    LET R2      == [R EXCEPT !.index = add_all_files_to_index(R)]
        tree_id == create_tree_from_index_entries(R2.index)
        made    == create_commit_object(R2, tree_id, head_id(R2), sameStamp)
        current_branch ==
            IF get_current_branch(made.r) = "error" THEN "draft"
            ELSE get_current_branch(made.r)
        u == update_head_ref(made.r, made.id, current_branch, "none")
    IN IF fail # "none" THEN [ok |-> FALSE, id |-> 0, r |-> R]
       ELSE [ok |-> TRUE, id |-> made.id, r |-> u.r]


\* commit_changes(repo_path, message): returns [ok, id, r]
commit_changes(R, fail, sameStamp) ==
    LET e == ensure_draft_branch(R, fail = "ensure")
    IN IF ~e.ok THEN [ok |-> FALSE, id |-> 0, r |-> e.r] ELSE
    LET s == switch_to_branch(e.r, "draft",
                 IF fail = "switch_ref" THEN "ref"
                 ELSE IF fail = "switch_head" THEN "head" ELSE "none")
    IN IF ~s.ok THEN [ok |-> FALSE, id |-> 0, r |-> s.r] ELSE
    \* add_all_files_to_index or index.write fails: nothing more is written
    IF fail = "index" THEN [ok |-> FALSE, id |-> 0, r |-> s.r] ELSE
    LET R2      == [s.r EXCEPT !.index = add_all_files_to_index(s.r)]
        tree_id == create_tree_from_index_entries(R2.index)
    IN IF fail = "tree" THEN [ok |-> FALSE, id |-> 0, r |-> R2] ELSE
    IF fail = "object" THEN [ok |-> FALSE, id |-> 0, r |-> R2] ELSE
    LET parent == head_id(R2)
        made   == create_commit_object(R2, tree_id, parent, sameStamp)
    IN IF fail = "crash" THEN [ok |-> FALSE, id |-> 0, r |-> made.r] ELSE
    LET current_branch ==
            IF get_current_branch(made.r) = "error" THEN "draft"
            ELSE get_current_branch(made.r)
        u == update_head_ref(made.r, made.id, current_branch,
                 IF fail \in {"ref", "head"} THEN fail ELSE "none")
    IN IF ~u.ok THEN [ok |-> FALSE, id |-> 0, r |-> u.r] ELSE
    \* "let _ = switch_to_branch(repo_path, "draft")": its failure is ignored
    [ok |-> TRUE, id |-> made.id, r |-> switch_to_branch(u.r, "draft", "none").r]

\* ---------------------------------------------------------------- history
RECURSIVE Chain(_, _)
\* the first-parent chain of commit id, newest first
Chain(C, id) == IF id = 0 THEN <<>> ELSE <<id>> \o Chain(C, C[id].parent)

Ancestors(C, id) == LET ch == Chain(C, id) IN {ch[i] : i \in 1..Len(ch)}

\* the commits reachable from the local branch refs
Reachable(C, rf) == UNION {Ancestors(C, rf[b]) : b \in BranchNames}

\* ---------------------------------------------------------------- git's view of trees
\* What the git command line reads from a tree or an index as path -> blob.
\* A tree written by create_tree_from_index_entries may hold a name twice;
\* which entry git then uses is not defined, rule says which: "first", "last"
DupRules == {"first", "last"}

EntriesOf(t, p) == {i \in 1..Len(t) : t[i].path = p}

\* the blob of the entry chosen among the entries S of one path
PickEntry(t, S, rule) ==
    IF S = {} THEN Absent
    ELSE IF rule = "first" THEN t[CHOOSE j \in S : \A k \in S : j <= k].oid
    ELSE t[CHOOSE j \in S : \A k \in S : j >= k].oid

MapOf(t, rule) == [p \in AllPaths |-> PickEntry(t, EntriesOf(t, p), rule)]

\* the tree git writes for a path -> blob map: one entry per path, sorted
TreeOfMap(m) ==
    LET ps == SeqOfSet({p \in AllPaths : m[p] # Absent})
    IN [i \in 1..Len(ps) |-> Entry(ps[i], m[ps[i]])]

TreeOf(R, id, rule) ==
    IF id = 0 THEN [p \in AllPaths |-> Absent] ELSE MapOf(R.commits[id].tree, rule)

\* one side is taken whatever the base says
MergeTheirs(b, o, t) == t

\* three-way merge of one path: the side that changed wins
MergePath(b, o, t) == IF o = b THEN t ELSE IF t = b THEN o ELSE IF o = t THEN o ELSE -1

Merge3(base, ours, theirs) ==
    [p \in AllPaths |-> MergePath(base[p], ours[p], theirs[p])]

HasConflict(m) == \E p \in AllPaths : m[p] = -1

\* git refuses to replace the index and the working tree by the tree new when
\* a path it would rewrite holds something that is neither the old nor the new
\* content
CanCheckout(R, old, new, rule) ==
    \A p \in AllPaths :
        new[p] # old[p] =>
            /\ MapOf(R.index, rule)[p] \in {old[p], new[p]}
            /\ R.wt[p] \in {old[p], new[p]}

\* the index becomes the tree new and the paths that differ are rewritten
Checkout(R, old, new) ==
    [R EXCEPT !.index = TreeOfMap(new),
              !.wt = [p \in AllPaths |-> IF new[p] # old[p] THEN new[p] ELSE R.wt[p]]]

\* git reset --hard: index and tracked files become the tree new
ResetHard(R, new, rule) ==
    [R EXCEPT !.index = TreeOfMap(new),
              !.wt = [p \in AllPaths |->
                        IF new[p] # Absent \/ MapOf(R.index, rule)[p] # Absent
                        THEN new[p] ELSE R.wt[p]]]

\* no tracked file differs from the index idx
TrackedClean(R, idx) == \A p \in AllPaths : idx[p] # Absent => R.wt[p] = idx[p]

\* require_clean_work_tree: the index equals HEAD's tree and no tracked file
\* is modified
GitClean(R, rule) ==
    /\ MapOf(R.index, rule) = TreeOf(R, head_id(R), rule)
    /\ TrackedClean(R, MapOf(R.index, rule))

\* ---------------------------------------------------------------- git rebase
RECURSIVE Reverse(_)
Reverse(q) == IF q = <<>> THEN <<>> ELSE Reverse(Tail(q)) \o <<Head(q)>>

\* the commits of tip's history that upstream does not have, oldest first
ToReplay(C, tip, upstream) ==
    LET ch   == Chain(C, tip)
        mine == {i \in 1..Len(ch) : ch[i] \notin Ancestors(C, upstream)}
    IN Reverse([i \in 1..Cardinality(mine) |-> ch[i]])

RECURSIVE Replay(_, _, _, _)
RECURSIVE ReplayStep(_, _, _, _, _, _)
RECURSIVE ReplayFrom(_, _, _)
\* replay the commits of todo onto cur, one at a time: [result, r, tip, left,
\* unmerged]; left is the picks not done, unmerged the paths in conflict
Replay(R, todo, cur, rule) ==
    IF todo = <<>>
    THEN [result |-> "ok", r |-> R, tip |-> cur, left |-> <<>>, unmerged |-> {}]
    ELSE ReplayStep(R, todo, cur, TreeOf(R, cur, rule),
                    Merge3(TreeOf(R, R.commits[Head(todo)].parent, rule),
                           TreeOf(R, cur, rule), TreeOf(R, Head(todo), rule)),
                    rule)

\* one pick: m is the merge of the picked change into the tree ours of cur.
\* A pick whose change is already in cur is skipped.
ReplayStep(R, todo, cur, ours, m, rule) ==
    IF HasConflict(m)
    THEN [result |-> "conflict", r |-> R, tip |-> cur, left |-> todo,
          unmerged |-> {p \in AllPaths : m[p] = -1}]
    ELSE IF m = ours THEN Replay(R, Tail(todo), cur, rule)
    ELSE ReplayFrom(create_commit_object(R, TreeOfMap(m), cur, FALSE),
                    Tail(todo), rule)

\* the picks that follow the commit made
ReplayFrom(made, todo, rule) == Replay(made.r, todo, made.id, rule)

\* the rebase stopped: HEAD is detached at tip and the session stays open
Stopped(R, branch, orig, tip, left, unmerged, rule) ==
    [Checkout(R, TreeOf(R, orig, rule), TreeOf(R, tip, rule))
        EXCEPT !.head = Detached, !.headId = tip,
               !.rebase = [branch |-> branch, orig |-> orig, todo |-> left,
                           unmerged |-> unmerged]]

\* the end of a rebase whose picks gave rp: it stops on a conflict, else the
\* branch is moved to the last commit made and checked out
rebase_finish(R, rp, rule) ==
    IF rp.result = "conflict"
    THEN [result |-> "conflict",
          r |-> Stopped(rp.r, R.head, head_id(R), rp.tip, rp.left,
                        rp.unmerged, rule)]
    ELSE [result |-> "ok",
          r |-> [Checkout(rp.r, TreeOf(R, head_id(R), rule),
                          TreeOf(rp.r, rp.tip, rule))
                    EXCEPT !.refs[R.head] = rp.tip]]

\* the rebase replays todo on upstream
rebase_onto(R, upstream, todo, env, rule) ==
    IF env = "open" /\ todo # <<>>
    THEN [result |-> "fail",
          r |-> Stopped(R, R.head, head_id(R), upstream, todo, {}, rule)]
    ELSE rebase_finish(R, Replay(R, todo, upstream, rule), rule)

\* "git rebase <remote>/<branch>" run on the branch HEAD names: [result, r]
\* with result "ok", "conflict" (stderr names a conflict) or "fail".
\* env is what the environment does to the command: "run", "closed" (it
\* fails before it starts), "open" (it stops at a step for another reason
\* than a conflict)
git_rebase(R, upstream, env, rule) ==
    IF \/ R.rebase # NoRebase \/ upstream = 0 \/ R.head = Detached
       \/ head_id(R) = 0 \/ env = "closed" \/ ~GitClean(R, rule)
    THEN [result |-> "fail", r |-> R]
    ELSE IF upstream \in Ancestors(R.commits, head_id(R))
    THEN [result |-> "ok", r |-> R]
    ELSE IF ~CanCheckout(R, TreeOf(R, head_id(R), rule),
                         TreeOf(R, upstream, rule), rule)
    THEN [result |-> "fail", r |-> R]
    ELSE rebase_onto(R, upstream, ToReplay(R.commits, head_id(R), upstream),
                     env, rule)

\* "git rebase --abort": without a session it fails and changes nothing; with
\* one, HEAD names the branch again and the branch is reset to where it was
git_rebase_abort(R, rule) ==
    IF R.rebase = NoRebase THEN R
    ELSE ResetHard([R EXCEPT !.head = R.rebase.branch, !.headId = 0,
                             !.refs[R.rebase.branch] = R.rebase.orig,
                             !.rebase = NoRebase],
                   TreeOf(R, R.rebase.orig, rule), rule)

\* ---------------------------------------------------------------- remote
\* the values of "url =" in [remote "origin"]: none, an https url, an ssh url,
\* an https url that carries the token as its user part
Urls == {"absent", "https", "ssh", "https_token"}

\* add_remote: the url line of the section is written or replaced
add_remote(R, url) == [R EXCEPT !.cfgUrl = url]

\* get_remote_url: the url of the section, "absent" for None
get_remote_url(R) == R.cfgUrl

\* the token branch shared by fetch_from_remote and push_to_remote: with a
\* token and an https url, the url with the token in it is written to the
\* config by add_remote.  Nothing writes the former url back.
with_token_url(R, token) ==
    IF ~token THEN Ok(R)
    ELSE IF get_remote_url(R) = "absent" THEN Err(R)
    ELSE IF get_remote_url(R) \in {"https", "https_token"}
         THEN Ok(add_remote(R, "https_token"))
         ELSE Ok(R)

\* a fetch that moves the tracking ref and stores no object
fetch_refs_only(R, token, net) ==
    LET u == with_token_url(R, token)
    IN IF ~u.ok THEN u
       ELSE IF u.r.cfgUrl = "absent" \/ net = "down" THEN Err(u.r)
       ELSE Ok([u.r EXCEPT !.tracking = IF u.r.remoteMain = 0 THEN @
                                          ELSE u.r.remoteMain])

\* fetch_from_remote: net = "down" when the transport or the server fails
fetch_from_remote(R, token, net) ==
    LET u == with_token_url(R, token)
    IN IF ~u.ok THEN u
       ELSE IF u.r.cfgUrl = "absent" THEN Err(u.r)
       ELSE IF net = "down" THEN Err(u.r)
       ELSE Ok([u.r EXCEPT !.tracking = IF u.r.remoteMain = 0 THEN @
                                          ELSE u.r.remoteMain,
                           !.have = @ \cup Ancestors(u.r.commits, u.r.remoteMain)])

\* a push that, when it fails, puts the branch back on the tracking commit
push_or_rollback(R, branch_name, token, net) ==
    LET u == with_token_url(R, token)
        undone == [u.r EXCEPT !.refs[branch_name] = u.r.tracking]
    IN IF ~u.ok THEN u
       ELSE IF u.r.cfgUrl = "absent" THEN Err(u.r)
       ELSE IF net # "ok" \/ u.r.refs[branch_name] = 0 THEN Err(undone)
       ELSE IF u.r.remoteMain \notin
                   ({0} \cup Ancestors(u.r.commits, u.r.refs[branch_name]))
       THEN Err(undone)
       ELSE Ok([u.r EXCEPT !.remoteMain = u.r.refs[branch_name],
                           !.tracking = u.r.refs[branch_name]])

\* push_to_remote: "git push origin <branch>" after the connection check.
\* The push is refused when the remote tip is not in the branch's history.
push_to_remote(R, branch_name, token, net) ==
    LET u == with_token_url(R, token)
    IN IF ~u.ok THEN u
       ELSE IF u.r.cfgUrl = "absent" THEN Err(u.r)
       ELSE IF net # "ok" THEN Err(u.r)
       ELSE IF u.r.refs[branch_name] = 0 THEN Err(u.r)
       ELSE IF u.r.remoteMain \notin
                   ({0} \cup Ancestors(u.r.commits, u.r.refs[branch_name]))
       THEN Err(u.r)
       ELSE Ok([u.r EXCEPT !.remoteMain = u.r.refs[branch_name],
                           !.tracking = u.r.refs[branch_name]])

\* what can happen to a push on the way: nothing, no connection, the
\* credentials are refused, the server declines the update (a hook, a
\* protected branch)
PushNets == {"ok", "down", "auth", "declined"}

\* "git push <remote> <branch> --quiet" when it exits with a failure: what
\* made it fail and the words of its stderr.  A missing source ref is found
\* before the connection, the history check ("! [rejected] ...
\* (non-fast-forward)") before the objects are sent, the server's refusal
\* ("! [remote rejected] ... (hook declined)") after.
git_push_failure(R, branch_name, net) ==
    IF R.refs[branch_name] = 0
    THEN [cause |-> "src_missing", stderr |-> {"error", "src refspec"}]
    ELSE IF net = "auth"
    THEN [cause |-> "auth", stderr |-> {"fatal", "Authentication failed"}]
    ELSE IF R.remoteMain \notin
                ({0} \cup Ancestors(R.commits, R.refs[branch_name]))
    THEN [cause |-> "non_fast_forward",
          stderr |-> {"failed to push", "rejected", "non-fast-forward"}]
    ELSE IF net = "declined"
    THEN [cause |-> "declined",
          stderr |-> {"failed to push", "remote", "rejected", "hook declined"}]
    ELSE [cause |-> "none", stderr |-> {}]

\* the error push_to_remote returns for a failed "git push": the message
\* about remote commits when stderr contains "non-fast-forward" or
\* "rejected", the message with the exit code and stderr otherwise
push_bail(failure) ==
    IF "non-fast-forward" \in failure.stderr \/ "rejected" \in failure.stderr
    THEN "not_fast_forward"
    ELSE "push_failed"

\* the error of push_to_remote, "none" when it returns Ok, next to what
\* made the push fail
push_error(R, branch_name, token, net) ==
    LET u == with_token_url(R, token)
        failure == git_push_failure(u.r, branch_name, net)
    IN IF ~u.ok THEN [cause |-> "not_configured", err |-> "not_configured"]
       ELSE IF u.r.cfgUrl = "absent"
       THEN [cause |-> "not_configured", err |-> "find_remote"]
       ELSE IF net = "down" THEN [cause |-> "network", err |-> "connect"]
       ELSE IF failure.cause = "none" THEN [cause |-> "none", err |-> "none"]
       ELSE [cause |-> failure.cause, err |-> push_bail(failure)]

\* ---------------------------------------------------------------- squash
\* the newest commit of x's history that is in y's history too, 0 when none
MergeBase(C, x, y) ==
    LET ch     == Chain(C, x)
        common == {i \in 1..Len(ch) : ch[i] \in Ancestors(C, y)}
    IN IF common = {} THEN 0
       ELSE ch[CHOOSE i \in common : \A j \in common : i <= j]

\* the merge of draft into HEAD gave m; o is HEAD's tree.  A conflicting
\* path keeps HEAD's content here.
squash_apply(R, base, o, m, rule) ==
    IF base = head_id(R)
    THEN IF CanCheckout(R, o, m, rule) THEN Ok(Checkout(R, o, m)) ELSE Err(R)
    ELSE IF ~GitClean(R, rule) THEN Err(R)
    ELSE IF HasConflict(m)
    THEN Err(Checkout(R, o, [p \in AllPaths |-> IF m[p] = -1 THEN o[p] ELSE m[p]]))
    ELSE Ok(Checkout(R, o, m))

\* the merge of draft into HEAD from their merge base
squash_from(R, base, rule) ==
    IF base = 0 THEN Err(R)
    ELSE squash_apply(R, base, TreeOf(R, head_id(R), rule),
                      Merge3(TreeOf(R, base, rule), TreeOf(R, head_id(R), rule),
                             TreeOf(R, R.refs["draft"], rule)),
                      rule)

\* "git merge --squash draft" run on HEAD: the changes of draft are put in
\* the index and the working tree, no commit is made, HEAD does not move.
\* It fails on unrelated histories, on local changes it would overwrite and
\* on a conflict.
git_merge_squash(R, rule) ==
    IF R.refs["draft"] = 0 \/ head_id(R) = 0 THEN Err(R)
    ELSE IF R.refs["draft"] \in Ancestors(R.commits, head_id(R)) THEN Ok(R)
    ELSE squash_from(R, MergeBase(R.commits, head_id(R), R.refs["draft"]), rule)

\* HEAD, or the branch it names, moves to the commit made from the index
commit_made(R, made, tree) ==
    IF R.head = Detached
    THEN Ok([made.r EXCEPT !.headId = made.id, !.index = tree])
    ELSE Ok([made.r EXCEPT !.refs[R.head] = made.id, !.index = tree])

\* the index read as idx is committed; "nothing to commit" when it equals
\* HEAD's tree
commit_index(R, idx, rule) ==
    IF idx = TreeOf(R, head_id(R), rule) THEN Err(R)
    ELSE commit_made(R, create_commit_object(R, TreeOfMap(idx), head_id(R), FALSE),
                     TreeOfMap(idx))

\* "git commit -m ...": commit the index on HEAD; it fails when the index
\* equals HEAD's tree and when env says so
git_commit(R, env, rule) ==
    IF env = "fail" THEN Err(R) ELSE commit_index(R, MapOf(R.index, rule), rule)

\* "git status --porcelain" prints nothing
StatusClean(R, rule) ==
    /\ MapOf(R.index, rule) = TreeOf(R, head_id(R), rule)
    /\ R.wt = MapOf(R.index, rule)

\* the pending changes are thrown away instead of staged
git_discard_all(R) ==
    ResetHard(R, TreeOf(R, head_id(R), "first"), "first")

\* "git add -A": the index becomes the working tree, hidden files included
git_add_all(R) == [R EXCEPT !.index = TreeOfMap(R.wt)]

\* ---------------------------------------------------------------- draft and conflict
\* get_draft_commits_count: walk draft's first parents until main is met
get_draft_commits_count(R) ==
    LET draft_id == R.refs["draft"]
        main_id  == R.refs["main"]
        ch       == Chain(R.commits, draft_id)
        at       == {i \in 1..Len(ch) : ch[i] = main_id}
    IN IF draft_id = 0 \/ main_id = 0 \/ draft_id = main_id THEN 0
       ELSE IF at = {} THEN Len(ch)
       ELSE (CHOOSE i \in at : TRUE) - 1

\* handle_sync_conflict: save HEAD's commit as conflict_<timestamp>, then move
\* <branch> to the remote tracking commit and point HEAD at it.  The index
\* and the working tree are not touched.  Returns [ok, r]
handle_sync_conflict(R, branch_name, conflict_branch_name) ==
    LET current_head == head_id(R)
        R1 == [R EXCEPT !.refs[conflict_branch_name] = current_head]
    IN IF current_head = 0 THEN Err(R)
       ELSE IF current_head \notin R.have THEN Err(R1)
       ELSE IF R.tracking = 0 THEN Err(R1)
       ELSE Ok([R1 EXCEPT !.refs[branch_name] = R.tracking,
                          !.head = branch_name, !.headId = 0])

\* ---------------------------------------------------------------- sync
\* what the environment does during one sync_with_remote call
NoFault(t, r, s) ==
    [token |-> t, fetch |-> "ok", push |-> "ok", rebase1 |-> "run",
     rebase2 |-> "run", commit |-> "ok", rule |-> r, stamp |-> s,
     reset |-> "ok"]

\* the environments with at most one fault; stamps are the timestamps a
\* conflict branch may be named after
SyncEnvs(tokens, stamps) ==
    UNION {{e, [e EXCEPT !.fetch = "down"], [e EXCEPT !.push = "down"],
            [e EXCEPT !.rebase1 = "closed"], [e EXCEPT !.rebase1 = "open"],
            [e EXCEPT !.rebase2 = "closed"], [e EXCEPT !.rebase2 = "open"],
            [e EXCEPT !.commit = "fail"]} :
           e \in {NoFault(t, r, c) : t \in tokens, r \in DupRules,
                                     c \in stamps}}

\* the outcome of sync_with_remote: Ok(SyncResult) or Err, the repository it
\* leaves, and what happened inside: push is "none", "ok" or "failed",
\* atPush the commits that were reachable from the local branches when a push
\* that failed was attempted, rebaseFailed whether a rebase failed without a
\* conflict
SyncOut(ok, conflict, branch, R, push, atPush, rebaseFailed) ==
    [ok |-> ok, conflict |-> conflict, branch |-> branch, r |-> R,
     push |-> push, atPush |-> atPush, rebaseFailed |-> rebaseFailed]

\* draft is left where it is
draft_kept(R, branch_name) == R

\* HEAD names draft: draft is set to <branch>'s commit when <branch> exists
draft_to_main(R, branch_name) ==
    IF R.refs[branch_name] # 0
    THEN [R EXCEPT !.refs["draft"] = R.refs[branch_name]]
    ELSE R

\* phase 4 and its two early-return copies: switch to draft, reset it to
\* <branch>.  When the write of refs/heads/draft fails (io = "fail") a
\* warning is logged and the sync goes on to return success.
reset_draft_to_main(R, branch_name, io) ==
    IF io = "fail" THEN switch_to_branch(R, "draft", "none").r
    ELSE draft_to_main(switch_to_branch(R, "draft", "none").r, branch_name)

\* Err(...) returned by sync_with_remote
SyncErr(R, failed1) == SyncOut(FALSE, FALSE, "none", R, "none", {}, failed1)

\* the push of <branch> returned p; R is the repository before it
sync_pushed(R, p, branch_name, failed1, io) ==
    IF ~p.ok
    THEN SyncOut(FALSE, FALSE, "none", p.r, "failed",
                 Reachable(R.commits, R.refs), failed1)
    ELSE SyncOut(TRUE, FALSE, "none",
                 reset_draft_to_main(p.r, branch_name, io), "ok", {}, failed1)

\* push <branch>, then phase 4
sync_push(R, branch_name, env, failed1) ==
    sync_pushed(R, push_to_remote(R, branch_name, env.token, env.push),
                branch_name, failed1, env.reset)

\* handle_sync_conflict returned h: Ok(SyncResult { has_conflict: true,
\* conflict_branch }) or its error
sync_conflict_handled(h, env, failed1) ==
    IF h.ok
    THEN SyncOut(TRUE, TRUE, env.stamp, h.r, "none", {}, failed1)
    ELSE SyncErr(h.r, failed1)

\* the conflict branch of sync_with_remote
sync_conflict(R, branch_name, env, failed1) ==
    sync_conflict_handled(handle_sync_conflict(R, branch_name, env.stamp), env,
                          failed1)

\* phase 3 after "git rebase" returned rb
sync_rebased(rb, branch_name, env, failed1) ==
    IF rb.result = "ok" THEN sync_push(rb.r, branch_name, env, failed1)
    ELSE IF rb.result = "conflict"
    THEN sync_conflict(git_rebase_abort(rb.r, env.rule), branch_name, env,
                       failed1)
    \* "anyhow::bail!": the error is returned, git rebase --abort is not run
    ELSE SyncErr(rb.r, TRUE)

\* phase 3 of sync_with_remote: rebase <branch> on the tracking ref, push,
\* then phase 4.  failed1 says that the rebase of phase 2 failed.
sync_integrate(R, branch_name, env, failed1) ==
    IF head_id(R) = 0 \/ R.tracking = 0 \/ head_id(R) = R.tracking
    THEN sync_push(R, branch_name, env, failed1)
    ELSE sync_rebased(
             git_rebase(IF StatusClean(R, env.rule) THEN R ELSE git_add_all(R),
                        R.tracking, env.rebase2, env.rule),
             branch_name, env, failed1)

\* "git commit" of the squash returned c: on failure "git reset --hard HEAD"
\* and the error, else phase 3
sync_committed(c, branch_name, env, failed1) ==
    IF ~c.ok
    THEN SyncErr(ResetHard(c.r, TreeOf(c.r, head_id(c.r), env.rule), env.rule),
                 failed1)
    ELSE sync_integrate(c.r, branch_name, env, failed1)

\* "git merge --squash draft" returned sq
sync_squashed(sq, branch_name, env, failed1) ==
    IF ~sq.ok THEN SyncErr(sq.r, failed1)
    ELSE sync_committed(git_commit(sq.r, env.commit, env.rule), branch_name,
                        env, failed1)

\* the switch back to <branch> returned m
sync_on_main(m, branch_name, env, failed1) ==
    IF ~m.ok THEN SyncErr(m.r, failed1)
    ELSE sync_squashed(git_merge_squash(m.r, env.rule), branch_name, env,
                       failed1)

\* phase 2 after "git rebase" of draft returned rb.  On a conflict: abort,
\* switch to <branch>, handle_sync_conflict.  On another failure: "git rebase
\* --abort", then go on as if it had succeeded.
sync_draft_rebased(rb, branch_name, env) ==
    IF rb.result = "conflict"
    THEN sync_conflict(
             switch_to_branch(git_rebase_abort(rb.r, env.rule), branch_name,
                              "none").r,
             branch_name, env, FALSE)
    ELSE sync_on_main(
             switch_to_branch(IF rb.result = "fail"
                              THEN git_rebase_abort(rb.r, env.rule) ELSE rb.r,
                              branch_name, "none"),
             branch_name, env, rb.result = "fail")

\* the switch to draft returned d
sync_on_draft(d, branch_name, env) ==
    IF ~d.ok THEN SyncErr(d.r, FALSE)
    ELSE sync_draft_rebased(
             git_rebase(d.r, d.r.tracking, env.rebase1, env.rule),
             branch_name, env)

\* the switch to <branch> returned s: phase 2 when draft has commits that
\* <branch> has not, else phase 3
sync_on_branch(s, branch_name, env) ==
    IF ~s.ok THEN SyncErr(s.r, FALSE)
    ELSE IF get_draft_commits_count(s.r) = 0
    THEN sync_integrate(s.r, branch_name, env, FALSE)
    ELSE sync_on_draft(switch_to_branch(s.r, "draft", "none"), branch_name, env)

\* ensure_draft_branch returned e
sync_ensured(e, branch_name, env) ==
    IF ~e.ok THEN SyncErr(e.r, FALSE)
    ELSE sync_on_branch(switch_to_branch(e.r, branch_name, "none"),
                        branch_name, env)

\* fetch_from_remote returned f
sync_fetched(f, branch_name, env) ==
    IF ~f.ok THEN SyncErr(f.r, FALSE)
    ELSE sync_ensured(ensure_draft_branch(f.r, FALSE), branch_name, env)

\* sync_with_remote(repo_path, "origin", branch_name, pat_token)
sync_with_remote(R, branch_name, env) ==
    sync_fetched(fetch_from_remote(R, env.token, env.fetch), branch_name, env)

\* ---------------------------------------------------------------- remote names
\* the remote names a caller may pass; both name the same server
RemoteNames == {"origin", "backup"}

\* add_remote(repo_path, name, url): the url of an existing section is
\* replaced; a new section gets the url and the line
\* "fetch = +refs/heads/*:refs/remotes/origin/*", whatever its name
add_remote_named(R, name, url) ==
    IF name = "origin" THEN add_remote(R, url)
    ELSE IF R.alt.url # "absent" THEN [R EXCEPT !.alt.url = url]
    ELSE [R EXCEPT !.alt.url = url, !.alt.dst = "origin"]

\* the fetch received the remote's main: the tracking ref of the namespace
\* dst that the refspec names is written
received_into(R, dst) ==
    IF R.remoteMain = 0 THEN R
    ELSE IF dst = "origin"
    THEN [R EXCEPT !.tracking = R.remoteMain,
                   !.have = @ \cup Ancestors(R.commits, R.remoteMain)]
    ELSE [R EXCEPT !.alt.tracking = R.remoteMain,
                   !.have = @ \cup Ancestors(R.commits, R.remoteMain)]

\* fetch_from_remote(repo_path, remote_name, None)
fetch_from_named(R, name, net) ==
    IF name = "origin" THEN fetch_from_remote(R, FALSE, net)
    ELSE IF R.alt.url = "absent" THEN Err(R)
    ELSE IF net = "down" THEN Err(R)
    ELSE Ok(received_into(R, R.alt.dst))

\* ---------------------------------------------------------------- status
\* get_repository_status: has_changes says that the index holds an entry
get_repository_status(R) ==
    [has_changes |-> R.index # <<>>, is_clean |-> R.index = <<>>]

\* ---------------------------------------------------------------- conflict engine
\* resolve_conflict, continue_sync and abort_sync are called by commands.rs;
\* what they do is taken from the description of the conflict engine.
ConflictChoices == {"Ours", "Theirs", "CopyBoth"}

\* the file next to p whose name embeds the time of the resolution
Sibling(p) == IF p = "a" THEN "b" ELSE "a"

\* the content oid is written to the file p and staged
stage_file(R, p, oid, rule) ==
    [R EXCEPT !.wt[p] = oid,
              !.index = TreeOfMap([MapOf(R.index, rule) EXCEPT ![p] = oid])]

\* CopyBoth is taken for Theirs: the local version is dropped
resolve_dropping_ours(R, ours, theirs, p, choice, rule) ==
    stage_file(R, p, IF choice = "Ours" THEN ours ELSE theirs, rule)

\* one ConflictResolutionItem {path, choice}: ours is the blob of the local
\* commit that is replayed, theirs the blob of the upstream side
resolve_item(R, ours, theirs, p, choice, rule) ==
    IF choice = "Ours" THEN stage_file(R, p, ours, rule)
    ELSE IF choice = "Theirs" THEN stage_file(R, p, theirs, rule)
    ELSE stage_file(stage_file(R, p, theirs, rule), Sibling(p), ours, rule)

\* resolve_conflict(repo_path, [{p, choice}]): [ok, r].  It fails when the
\* index has no conflicted entry for p
resolve_conflict(R, p, choice, rule) ==
    IF R.rebase = NoRebase \/ p \notin R.rebase.unmerged THEN Err(R)
    ELSE Ok([resolve_item(R, TreeOf(R, Head(R.rebase.todo), rule)[p],
                          TreeOf(R, head_id(R), rule)[p], p, choice, rule)
                EXCEPT !.rebase.unmerged = @ \ {p}])

\* the tree of the pick that had stopped: a staged path keeps what was
\* staged, any other path gets the merge m of the pick into tip
resolved_tree(m, tip, idx) ==
    [p \in AllPaths |-> IF idx[p] # tip[p] THEN idx[p]
                        ELSE IF m[p] = -1 THEN tip[p] ELSE m[p]]

\* the picks after the one that had stopped gave rp; from is the tree in the
\* working tree.  On a conflict the session stays open, else the branch ref
\* is set to the last commit and HEAD names the branch
continue_rest(R, rp, from, branch_name, rule) ==
    IF rp.result = "conflict"
    THEN [ok |-> TRUE, conflict |-> TRUE,
          r |-> [Checkout(rp.r, from, TreeOf(rp.r, rp.tip, rule))
                    EXCEPT !.headId = rp.tip, !.rebase.todo = rp.left,
                           !.rebase.unmerged = rp.unmerged]]
    ELSE [ok |-> TRUE, conflict |-> FALSE,
          r |-> [Checkout(rp.r, from, TreeOf(rp.r, rp.tip, rule))
                    EXCEPT !.refs[branch_name] = rp.tip,
                           !.head = branch_name, !.headId = 0,
                           !.rebase = NoRebase]]

\* the commit made of the pick that had stopped, then the picks that follow
continue_made(R, made, final, branch_name, rule) ==
    continue_rest(R, Replay(made.r, Tail(R.rebase.todo), made.id, rule), final,
                  branch_name, rule)

\* the resolved pick has the tree final; it is skipped when it changes
\* nothing
continue_picked(R, tip, final, branch_name, rule) ==
    IF final = tip
    THEN continue_rest(R, Replay(R, Tail(R.rebase.todo), head_id(R), rule),
                       final, branch_name, rule)
    ELSE continue_made(R, create_commit_object(Checkout(R, tip, final),
                                               TreeOfMap(final), head_id(R),
                                               FALSE),
                       final, branch_name, rule)

\* continue_sync(repo_path, branch_name): [ok, conflict, r].  Without a
\* session there is nothing to resume; with unmerged paths left the conflict
\* is reported again
continue_sync(R, branch_name, rule) ==
    IF R.rebase = NoRebase THEN [ok |-> FALSE, conflict |-> FALSE, r |-> R]
    ELSE IF R.rebase.unmerged # {}
    THEN [ok |-> TRUE, conflict |-> TRUE, r |-> R]
    ELSE IF R.rebase.todo = <<>>
    THEN continue_rest(R, [result |-> "ok", r |-> R, tip |-> head_id(R),
                           left |-> <<>>, unmerged |-> {}],
                       TreeOf(R, head_id(R), rule), branch_name, rule)
    ELSE continue_picked(
             R, TreeOf(R, head_id(R), rule),
             resolved_tree(
                 Merge3(TreeOf(R, R.commits[Head(R.rebase.todo)].parent, rule),
                        TreeOf(R, head_id(R), rule),
                        TreeOf(R, Head(R.rebase.todo), rule)),
                 TreeOf(R, head_id(R), rule), MapOf(R.index, rule)),
             branch_name, rule)

\* abort_sync(repo_path): [ok, r].  The session is discarded and the branch
\* is back where it was, checked out.  Without a session nothing changes;
\* strict says that this is reported as an error
abort_sync(R, strict, rule) ==
    IF R.rebase = NoRebase THEN (IF strict THEN Err(R) ELSE Ok(R))
    ELSE Ok(ResetHard([R EXCEPT !.head = R.rebase.branch, !.headId = 0,
                                !.refs[R.rebase.branch] = R.rebase.orig,
                                !.rebase = NoRebase],
                      TreeOf(R, R.rebase.orig, rule), rule))

\* ---------------------------------------------------------------- results
NoRet == [op |-> "init", ok |-> TRUE, id |-> 0, conflict |-> FALSE,
          branch |-> "none", push |-> "none", atPush |-> {},
          rebaseFailed |-> FALSE, path |-> "none", choice |-> "none",
          remote |-> "none", err |-> "none", cause |-> "none",
          has_changes |-> FALSE, is_clean |-> FALSE, count |-> 0]

\* the record of an operation that returned
Returned(op, ok, id) == [NoRet EXCEPT !.op = op, !.ok = ok, !.id = id]

\* ---------------------------------------------------------------- initial states
EmptyTree == [p \in AllPaths |-> Absent]

\* a repository right after init_repository: HEAD names main, which is unborn
InitFresh ==
    /\ commits = <<>>
    /\ have = {}
    /\ refs = [b \in BranchNames |-> 0]
    /\ index = <<>>
    /\ wt = EmptyTree
    /\ tracking = 0
    /\ remoteMain = 0
    /\ cfgUrl = "absent"
    /\ alt = NoAlt
    /\ app = NoApp

\* a repository that already holds the root commit of the remote's main
InitCloned ==
    /\ commits = << [tree |-> <<Entry("a", 1)>>, parent |-> 0] >>
    /\ have = {1}
    /\ refs = [b \in BranchNames |-> IF b = "main" THEN 1 ELSE 0]
    /\ index = <<Entry("a", 1)>>
    /\ wt = [EmptyTree EXCEPT !["a"] = 1]
    /\ tracking = 1
    /\ remoteMain = 1
    /\ cfgUrl = "https"
    /\ alt = NoAlt
    /\ app = NoApp

\* a repository cloned from a remote whose main holds one commit with an
\* empty tree: the first device committed before it wrote a file
InitEmptyClone ==
    /\ commits = << [tree |-> <<>>, parent |-> 0] >>
    /\ have = {1}
    /\ refs = [b \in BranchNames |-> IF b = "main" THEN 1 ELSE 0]
    /\ index = <<>>
    /\ wt = EmptyTree
    /\ tracking = 1
    /\ remoteMain = 1
    /\ cfgUrl = "https"
    /\ alt = NoAlt
    /\ app = NoApp

Init ==
    /\ InitFresh \/ InitCloned
    /\ head = "main"
    /\ headId = 0
    /\ rebase = NoRebase
    /\ ret = NoRet
    /\ orphan = 0
    /\ edits = 0
    /\ advances = 0
    /\ ops = 0
    /\ faults = 0

\* ---------------------------------------------------------------- actions
\* one more operation of the Git layer is called; fault says that the
\* environment fails during the call
Called(fault) ==
    /\ ops < MaxOps
    /\ ops' = ops + 1
    /\ fault => faults < MaxFaults
    /\ faults' = IF fault THEN faults + 1 ELSE faults

\* the user (or the editor) writes content c to the file p
WriteFile(p, c) ==
    /\ edits < MaxEdits
    /\ wt[p] # c
    /\ wt' = [wt EXCEPT ![p] = c]
    /\ edits' = edits + 1
    /\ ret' = Returned("edit", TRUE, 0)
    /\ UNCHANGED <<commits, have, refs, head, headId, index, tracking, rebase,
                   cfgUrl, alt, app, remoteMain, orphan, advances, ops, faults>>

\* delete_file: the file p is removed from the working tree
DeleteFile(p) ==
    /\ edits < MaxEdits
    /\ wt[p] # Absent
    /\ wt' = [wt EXCEPT ![p] = Absent]
    /\ edits' = edits + 1
    /\ ret' = Returned("edit", TRUE, 0)
    /\ UNCHANGED <<commits, have, refs, head, headId, index, tracking, rebase,
                   cfgUrl, alt, app, remoteMain, orphan, advances, ops, faults>>

\* commit_changes_command returns, with a value or with an error
Commit(fail, sameStamp) ==
    /\ Called(fail # "none")
    /\ \E out \in {commit_changes(Cur, fail, sameStamp)} :
       /\ fail # "crash"
       /\ Len(out.r.commits) <= MaxCommits
       /\ Len(out.r.index) <= MaxIndex
       /\ Install(out.r)
       /\ ret' = Returned("commit", out.ok, out.id)
       /\ UNCHANGED <<orphan, edits, advances, app>>

\* the process dies inside commit_changes after the commit object is written
\* and before update_head_ref
CommitInterrupted(sameStamp) ==
    /\ orphan = 0
    /\ Called(FALSE)
    /\ \E out \in {commit_changes(Cur, "crash", sameStamp)} :
       /\ out.r.have # have
       /\ Len(out.r.commits) <= MaxCommits
       /\ Len(out.r.index) <= MaxIndex
       /\ Install(out.r)
       /\ ret' = Returned("crash", FALSE, 0)
       /\ orphan' = CHOOSE i \in out.r.have \ have : TRUE
       /\ UNCHANGED <<edits, advances, app>>

\* sync_with_remote / begin_sync returns; the object store holds at most max
\* commits afterwards
SyncWithin(env, max) ==
    /\ Called(env \notin {NoFault(env.token, env.rule, env.stamp)})
    /\ \E out \in {sync_with_remote(Cur, "main", env)} :
       /\ Len(out.r.commits) <= max
       /\ Install(out.r)
       /\ ret' = [op |-> "sync", ok |-> out.ok, id |-> 0,
                  conflict |-> out.conflict, branch |-> out.branch,
                  push |-> out.push, atPush |-> out.atPush,
                  rebaseFailed |-> out.rebaseFailed, path |-> "none",
                  choice |-> "none", remote |-> "none", err |-> "none",
                  cause |-> "none", has_changes |-> FALSE,
                  is_clean |-> FALSE, count |-> 0]
       /\ UNCHANGED <<orphan, edits, advances, app>>

Sync(env) == SyncWithin(env, MaxCommits)

\* the process dies inside sync_with_remote while the "git rebase" of phase 3
\* is replaying a commit: the rebase session is left open
SyncInterrupted(rule) ==
    /\ rebase = NoRebase
    /\ Called(FALSE)
    /\ \E out \in {sync_with_remote(Cur, "main",
                        [NoFault(FALSE, rule, "conflict_1") EXCEPT
                            !.rebase2 = "open"])} :
       /\ out.r.rebase # NoRebase
       /\ Len(out.r.commits) <= MaxCommits
       /\ Install(out.r)
       /\ ret' = Returned("crash", FALSE, 0)
       /\ UNCHANGED <<orphan, edits, advances, app>>

\* the process dies inside sync_with_remote right after the "git rebase" of
\* draft stopped on a conflict, before "git rebase --abort" is run
SyncKilledAtConflict(rule) ==
    /\ rebase = NoRebase
    /\ Called(FALSE)
    /\ \E f \in {fetch_from_remote(Cur, FALSE, "ok")} :
       \E e \in {ensure_draft_branch(f.r, FALSE)} :
       \E s \in {switch_to_branch(e.r, "main", "none")} :
       \E d \in {switch_to_branch(s.r, "draft", "none")} :
       \E rb \in {git_rebase(d.r, d.r.tracking, "run", rule)} :
       /\ f.ok /\ e.ok /\ s.ok /\ d.ok
       /\ get_draft_commits_count(s.r) > 0
       /\ rb.result = "conflict"
       /\ Install(rb.r)
       /\ ret' = Returned("crash", FALSE, 0)
       /\ UNCHANGED <<orphan, edits, advances, app>>

\* one more operation on a repository whose sync has stopped
SessionCalled ==
    /\ ops < MaxSessionOps
    /\ ops' = ops + 1
    /\ faults' = faults

\* resolve_conflict_command returns; a CopyBoth writes a file that did not
\* exist
Resolve(p, choice, rule) ==
    /\ SessionCalled
    /\ choice = "CopyBoth" =>
          wt[Sibling(p)] = Absent /\ MapOf(index, rule)[Sibling(p)] = Absent
    /\ \E out \in {resolve_conflict(Cur, p, choice, rule)} :
       /\ Install(out.r)
       /\ ret' = [Returned("resolve_conflict", out.ok, 0) EXCEPT
                     !.path = p, !.choice = choice]
       /\ UNCHANGED <<orphan, edits, advances, app>>

\* continue_sync_command returns
Continue(rule) ==
    /\ SessionCalled
    /\ \E out \in {continue_sync(Cur, "main", rule)} :
       /\ Len(out.r.commits) <= MaxCommitsTwo
       /\ Install(out.r)
       /\ ret' = [Returned("continue_sync", out.ok, 0) EXCEPT
                     !.conflict = out.conflict]
       /\ UNCHANGED <<orphan, edits, advances, app>>

\* abort_sync_command returns
Abort(strict, rule) ==
    /\ SessionCalled
    /\ \E out \in {abort_sync(Cur, strict, rule)} :
       /\ Install(out.r)
       /\ ret' = Returned("abort_sync", out.ok, 0)
       /\ UNCHANGED <<orphan, edits, advances, app>>

\* the fetch_from_remote command returns
Fetch(token, net) ==
    /\ Called(net = "down")
    /\ \E out \in {fetch_from_remote(Cur, token, net)} :
       /\ Install(out.r)
       /\ ret' = Returned("fetch", out.ok, 0)
       /\ UNCHANGED <<orphan, edits, advances, app>>

\* the push_to_remote command returns
Push(token, net) ==
    /\ Called(net # "ok")
    /\ \E out \in {push_to_remote(Cur, "main", token, net)},
          e \in {push_error(Cur, "main", token, net)} :
       /\ Install(out.r)
       /\ ret' = [Returned("push", out.ok, 0) EXCEPT
                     !.push = IF out.ok THEN "ok" ELSE "failed",
                     !.atPush = IF out.ok THEN {}
                                ELSE Reachable(commits, refs),
                     !.err = e.err, !.cause = e.cause]
       /\ UNCHANGED <<orphan, edits, advances, app>>

\* the add_remote command returns
AddRemote(url) ==
    /\ cfgUrl # url
    /\ Install(add_remote(Cur, url))
    /\ ret' = Returned("add_remote", TRUE, 0)
    /\ Called(FALSE)
    /\ UNCHANGED <<orphan, edits, advances, app>>

\* the add_remote command returns for a remote name
AddRemoteNamed(name, url) ==
    /\ Called(FALSE)
    /\ (IF name = "origin" THEN cfgUrl ELSE alt.url) # url
    /\ Install(add_remote_named(Cur, name, url))
    /\ ret' = [Returned("add_remote", TRUE, 0) EXCEPT !.remote = name]
    /\ UNCHANGED <<orphan, edits, advances, app>>

\* the fetch_from_remote command returns for a remote name
FetchNamed(name, net) ==
    /\ Called(net = "down")
    /\ \E out \in {fetch_from_named(Cur, name, net)} :
       /\ Install(out.r)
       /\ ret' = [Returned("fetch", out.ok, 0) EXCEPT !.remote = name]
       /\ UNCHANGED <<orphan, edits, advances, app>>

\* get_repository_status_command returns: nothing of the repository changes
Status ==
    /\ Called(FALSE)
    /\ ret' = [Returned("status", TRUE, 0) EXCEPT
                  !.has_changes = get_repository_status(Cur).has_changes,
                  !.is_clean = get_repository_status(Cur).is_clean]
    /\ UNCHANGED <<commits, have, refs, head, headId, index, wt, tracking,
                   rebase, cfgUrl, alt, app, remoteMain, orphan, edits, advances>>

\* handle_window_close returns: nothing is done without a remote url or
\* without a token; otherwise the changes that the status reports are
\* committed, the commit's error is logged only, and main is pushed to
\* origin, the push's error logged only
handle_window_close(token, fail, net) ==
    /\ Called(fail # "none" \/ net # "ok")
    /\ fail # "crash"
    /\ fail # "none" =>
          (cfgUrl # "absent" /\ token /\ get_repository_status(Cur).has_changes)
    /\ net # "ok" => (cfgUrl # "absent" /\ token)
    /\ \E c \in {IF get_repository_status(Cur).has_changes
                  THEN commit_changes(Cur, fail, FALSE)
                  ELSE [ok |-> FALSE, id |-> 0, r |-> Cur]} :
       \E ps \in {push_to_remote(c.r, "main", TRUE, net)} :
       /\ Len(c.r.commits) <= MaxCommits
       /\ Len(c.r.index) <= MaxIndex
       /\ IF get_remote_url(Cur) = "absent" \/ ~token
          THEN Install(Cur) /\ ret' = Returned("close", TRUE, 0)
          ELSE /\ Install(ps.r)
               /\ ret' = [Returned("close", TRUE,
                                   IF c.ok THEN c.id ELSE 0) EXCEPT
                             !.push = IF ps.ok THEN "ok" ELSE "failed",
                             !.atPush = IF ps.ok THEN {}
                                        ELSE Reachable(c.r.commits, c.r.refs)]
       /\ UNCHANGED <<orphan, edits, advances>>

\* the handler runs while the process is left aside
WindowClose(token, fail, net) ==
    handle_window_close(token, fail, net) /\ UNCHANGED app

\* get_draft_commits_count returns: nothing of the repository changes
DraftCommitsCount ==
    /\ Called(FALSE)
    /\ ret' = [Returned("draft_count", TRUE, 0) EXCEPT
                  !.count = get_draft_commits_count(Cur)]
    /\ UNCHANGED <<commits, have, refs, head, headId, index, wt, tracking,
                   rebase, cfgUrl, alt, app, remoteMain, orphan, edits, advances>>

\* switch_to_branch_command returns
SwitchToBranch(branch) ==
    /\ Called(FALSE)
    /\ \E out \in {switch_to_branch(Cur, branch, "none")} :
       /\ Install(out.r)
       /\ ret' = Returned("switch", out.ok, 0)
       /\ UNCHANGED <<orphan, edits, advances, app>>

\* delete_file_with_git_sync_command (to = "none") and
\* rename_file_with_git_sync (to = the new name): change the file, commit,
\* then push when a token is given; the push's error is logged only
ChangeWithGitSync(p, to, fail, token, net) ==
    /\ Called(fail # "none" \/ net = "down")
    /\ \E c \in {commit_changes(
                 [Cur EXCEPT !.wt = [q \in AllPaths |->
                      IF q = p THEN Absent ELSE IF q = to THEN wt[p] ELSE wt[q]]],
                 fail, FALSE)} :
       \E ps \in {push_to_remote(c.r, "main", TRUE, net)} :
       \E op \in {IF to = "none" THEN "delete_sync" ELSE "rename_sync"} :
       /\ edits < MaxEdits
       /\ wt[p] # Absent
       /\ to # p
       /\ to # "none" => wt[to] = Absent
       /\ fail # "crash"
       /\ Len(c.r.commits) <= MaxCommits
       /\ Len(c.r.index) <= MaxIndex
       /\ edits' = edits + 1
       /\ IF ~c.ok
          THEN Install(c.r) /\ ret' = Returned(op, FALSE, 0)
          ELSE IF ~token
          THEN Install(c.r) /\ ret' = Returned(op, TRUE, c.id)
          ELSE /\ Install(ps.r)
               /\ ret' = [Returned(op, TRUE, c.id) EXCEPT
                             !.push = IF ps.ok THEN "ok" ELSE "failed",
                             !.atPush = IF ps.ok THEN {}
                                        ELSE Reachable(c.r.commits, c.r.refs)]
       /\ UNCHANGED <<orphan, advances, app>>

\* another device publishes a commit on the remote's main: it changes one
\* file of the remote tip's tree
RemoteAdvance(p, c) ==
    LET old == IF remoteMain = 0 THEN EmptyTree
               ELSE MapOf(commits[remoteMain].tree, "first")
    IN /\ advances < MaxAdvances
       /\ cfgUrl # "absent"
       /\ Len(commits) < MaxCommits
       /\ old[p] # c
       /\ commits' = Append(commits, [tree |-> TreeOfMap([old EXCEPT ![p] = c]),
                                      parent |-> remoteMain])
       /\ remoteMain' = Len(commits) + 1
       /\ advances' = advances + 1
       /\ UNCHANGED <<have, refs, head, headId, index, wt, tracking, rebase,
                      cfgUrl, alt, app, ret, orphan, edits, ops, faults>>

\* the commit engine alone
Next ==
    \/ \E p \in AllPaths : \E c \in ContentsOf(p) : WriteFile(p, c)
    \/ \E p \in AllPaths : DeleteFile(p)
    \/ \E f \in CommitFailures, st \in BOOLEAN : Commit(f, st)
    \/ \E st \in BOOLEAN : CommitInterrupted(st)

Spec == Init /\ [][Next]_vars

\* the whole Git layer without tokens, and another device
NextSync ==
    \/ \E p \in VisiblePaths : \E c \in Contents : WriteFile(p, c)
    \/ \E p \in VisiblePaths : DeleteFile(p)
    \/ \E f \in CommitFailures : Commit(f, FALSE)
    \/ CommitInterrupted(FALSE)
    \/ \E env \in SyncEnvs({FALSE}, {"conflict_1"}) : Sync(env)
    \/ \E n \in {"ok", "down"} : Fetch(FALSE, n)
    \/ \E n \in {"ok", "down"} : Push(FALSE, n)
    \/ \E b \in {"main", "draft"} : SwitchToBranch(b)
    \/ \E p \in VisiblePaths, to \in VisiblePaths \cup {"none"},
          n \in {"ok", "down"} : ChangeWithGitSync(p, to, "none", TRUE, n)
    \/ \E p \in VisiblePaths, c \in Contents \cup {Absent} : RemoteAdvance(p, c)

SpecSync == Init /\ [][NextSync]_vars

\* the remote section of the configuration and the calls that carry a token
NextRemote ==
    \/ \E c \in Contents : WriteFile("a", c)
    \/ Commit("none", FALSE)
    \/ \E u \in {"https", "ssh"} : AddRemote(u)
    \/ \E t \in BOOLEAN, n \in {"ok", "down"} : Fetch(t, n)
    \/ \E t \in BOOLEAN, n \in {"ok", "down"} : Push(t, n)
    \/ \E env \in SyncEnvs({TRUE}, ConflictNames) : Sync(env)
    \/ \E n \in {"ok", "down"} : ChangeWithGitSync("a", "none", "none", TRUE, n)
    \/ \E c \in Contents : RemoteAdvance("a", c)

SpecRemote == Init /\ [][NextRemote]_vars

\* one device edits, commits and syncs while another one publishes; a sync
\* may be killed during a rebase
NextRecover ==
    \/ \E p \in AllPaths : \E c \in ContentsOf(p) : WriteFile(p, c)
    \/ \E p \in VisiblePaths : DeleteFile(p)
    \/ Commit("none", FALSE)
    \/ \E p \in VisiblePaths, c \in Contents \cup {Absent} : RemoteAdvance(p, c)
    \/ \E r \in DupRules : SyncInterrupted(r)
    \/ \E env \in SyncEnvs({FALSE}, {"conflict_1"}) : Sync(env)

SpecRecover == Init /\ [][NextRecover]_vars

\* two devices that start from the same empty commit: this one edits,
\* commits and syncs, the other one publishes a commit
InitTwoDevices ==
    /\ InitEmptyClone
    /\ head = "main"
    /\ headId = 0
    /\ rebase = NoRebase
    /\ ret = NoRet
    /\ orphan = 0
    /\ edits = 0
    /\ advances = 0
    /\ ops = 0
    /\ faults = 0

NextTwoDevices ==
    \/ \E p \in VisiblePaths, c \in Contents : WriteFile(p, c)
    \/ Commit("none", FALSE)
    \/ \E p \in VisiblePaths, c \in Contents : RemoteAdvance(p, c)
    \/ \E env \in SyncEnvs({FALSE}, {"conflict_1"}) :
          SyncWithin(env, MaxCommitsTwo)
    \/ \E r \in DupRules : SyncKilledAtConflict(r)
    \/ \E p \in VisiblePaths, ch \in ConflictChoices, r \in DupRules :
          Resolve(p, ch, r)
    \/ \E r \in DupRules : Continue(r)
    \/ \E st \in BOOLEAN, r \in DupRules : Abort(st, r)

SpecTwoDevices == InitTwoDevices /\ [][NextTwoDevices]_vars

\* a device whose sync may be killed while git rebase has HEAD detached, and
\* that then switches branch, commits or syncs again
NextDetached ==
    \/ \E p \in VisiblePaths, c \in Contents : WriteFile(p, c)
    \/ Commit("none", FALSE)
    \/ \E p \in VisiblePaths, c \in Contents : RemoteAdvance(p, c)
    \/ \E r \in DupRules : SyncKilledAtConflict(r)
    \/ \E b \in {"main", "draft"} : SwitchToBranch(b)
    \/ \E r \in DupRules : Sync(NoFault(FALSE, r, "conflict_1"))

SpecDetached == InitTwoDevices /\ [][NextDetached]_vars

\* remotes under two names, fetched while another device publishes
NextNamed ==
    \/ \E p \in VisiblePaths, c \in Contents : WriteFile(p, c)
    \/ Commit("none", FALSE)
    \/ \E p \in VisiblePaths, c \in Contents : RemoteAdvance(p, c)
    \/ \E n \in RemoteNames, u \in {"https", "ssh"} : AddRemoteNamed(n, u)
    \/ \E n \in RemoteNames, net \in {"ok", "down"} : FetchNamed(n, net)

SpecNamed == Init /\ [][NextNamed]_vars

\* pushes that meet every kind of failure
NextPush ==
    \/ \E c \in Contents : WriteFile("a", c)
    \/ Commit("none", FALSE)
    \/ \E u \in {"https", "ssh"} : AddRemote(u)
    \/ \E c \in Contents : RemoteAdvance("a", c)
    \/ \E r \in DupRules : Sync(NoFault(FALSE, r, "conflict_1"))
    \/ \E t \in BOOLEAN, n \in PushNets : Push(t, n)

SpecPush == Init /\ [][NextPush]_vars

\* edits and commits with the status asked in between
NextStatus ==
    \/ \E p \in VisiblePaths, c \in Contents : WriteFile(p, c)
    \/ \E p \in VisiblePaths : DeleteFile(p)
    \/ Commit("none", FALSE)
    \/ Status

SpecStatus == Init /\ [][NextStatus]_vars

\* deletions and renames through the commands that also commit and push,
\* in a clone, with the failures a commit can meet
NextDeleteSync ==
    \/ \E p \in VisiblePaths, c \in Contents : WriteFile(p, c)
    \/ Commit("none", FALSE)
    \/ \E c \in Contents : RemoteAdvance("b", c)
    \/ \E p \in VisiblePaths, to \in VisiblePaths \cup {"none"},
          f \in CommitFailures \ {"crash"}, t \in BOOLEAN, n \in {"ok", "down"} :
          ChangeWithGitSync(p, to, f, t, n)

\* the initial state that is a clone
InitOfClone == Init /\ commits # <<>>

SpecDeleteSync == InitOfClone /\ [][NextDeleteSync]_vars

\* the paths that commit and then push without fetching
NextClose ==
    \/ \E p \in VisiblePaths, c \in Contents : WriteFile(p, c)
    \/ Commit("none", FALSE)
    \/ \E u \in {"https", "ssh"} : AddRemote(u)
    \/ \E c \in Contents : RemoteAdvance("b", c)
    \/ \E t \in BOOLEAN, f \in {"none", "index", "head"},
          n \in {"ok", "down"} : WindowClose(t, f, n)
    \/ \E p \in VisiblePaths, to \in VisiblePaths \cup {"none"},
          n \in {"ok", "down"} : ChangeWithGitSync(p, to, "none", TRUE, n)

SpecClose == Init /\ [][NextClose]_vars

\* syncs during which the write of refs/heads/draft in phase 4 may fail
NextReset ==
    \/ \E p \in VisiblePaths, c \in Contents : WriteFile(p, c)
    \/ Commit("none", FALSE)
    \/ \E c \in Contents : RemoteAdvance("b", c)
    \/ \E r \in DupRules, io \in {"ok", "fail"} :
          Sync([NoFault(FALSE, r, "conflict_1") EXCEPT !.reset = io])

SpecReset == Init /\ [][NextReset]_vars

\* draft counted while commits, another device and syncs move the branches
NextCount ==
    \/ \E p \in VisiblePaths, c \in Contents : WriteFile(p, c)
    \/ Commit("none", FALSE)
    \/ \E p \in VisiblePaths, c \in Contents : RemoteAdvance(p, c)
    \/ \E r \in DupRules : Sync(NoFault(FALSE, r, "conflict_1"))
    \/ DraftCommitsCount

SpecCount == Init /\ [][NextCount]_vars

\* ---------------------------------------------------------------- .git/config as text
\* a line of .git/config: a section header, a "url =" line, a "fetch ="
\* line, another setting, or a blank line
Line(kind, val) == [kind |-> kind, val |-> val]
SectionLine(name) == Line("section", name)
UrlLine(url) == Line("url", url)

\* the file after init_repository: what gix writes, then [user]
InitConfig ==
    <<SectionLine("core"), Line("other", "bare"), Line("blank", ""),
      SectionLine("user"), Line("other", "name"), Line("other", "email")>>

\* the loop of add_remote over the lines of a config that has the section;
\* returns the new lines and whether the loop ended inside the section
RECURSIVE replace_url_lines(_, _, _, _)
replace_url_lines(lines, remote_section, url_line, in_remote_section) ==
    IF lines = <<>> THEN [new_lines |-> <<>>, in |-> in_remote_section]
    ELSE IF Head(lines) = remote_section
    THEN [replace_url_lines(Tail(lines), remote_section, url_line, TRUE)
             EXCEPT !.new_lines = <<Head(lines)>> \o @]
    ELSE IF Head(lines).kind = "section" /\ in_remote_section
    THEN [replace_url_lines(Tail(lines), remote_section, url_line, FALSE)
             EXCEPT !.new_lines = <<url_line, Head(lines)>> \o @]
    ELSE IF Head(lines).kind = "url" /\ in_remote_section
    THEN [replace_url_lines(Tail(lines), remote_section, url_line, TRUE)
             EXCEPT !.new_lines = <<url_line>> \o @]
    ELSE [replace_url_lines(Tail(lines), remote_section, url_line,
                            in_remote_section)
             EXCEPT !.new_lines = <<Head(lines)>> \o @]

\* the url line is put right after every header of the section
RECURSIVE url_after_header(_, _, _)
url_after_header(lines, remote_section, url_line) ==
    IF lines = <<>> THEN <<>>
    ELSE IF Head(lines) = remote_section
    THEN <<Head(lines), url_line>>
            \o url_after_header(Tail(lines), remote_section, url_line)
    ELSE <<Head(lines)>>
            \o url_after_header(Tail(lines), remote_section, url_line)

\* what add_remote does once the loop is over: when it ended inside the
\* section and no line of the file is a url line, the url is added
url_ensured(looped, remote_section, url_line) ==
    IF looped.in /\ \A i \in 1..Len(looped.new_lines) :
                       looped.new_lines[i].kind # "url"
    THEN url_after_header(looped.new_lines, remote_section, url_line)
    ELSE looped.new_lines

\* add_remote(repo_path, name, url) on the text of .git/config
add_remote_text(config, name, url) ==
    IF \E i \in 1..Len(config) : config[i] = SectionLine("remote " \o name)
    THEN url_ensured(replace_url_lines(config, SectionLine("remote " \o name),
                                       UrlLine(url), FALSE),
                     SectionLine("remote " \o name), UrlLine(url))
    ELSE config \o <<Line("blank", ""), SectionLine("remote " \o name),
                     UrlLine(url), Line("fetch", "origin")>>

\* the lines of a section: those after its first header up to the next
\* header
RECURSIVE section_lines(_, _, _)
section_lines(lines, header, inside) ==
    IF lines = <<>> THEN <<>>
    ELSE IF Head(lines) = header /\ ~inside
    THEN section_lines(Tail(lines), header, TRUE)
    ELSE IF Head(lines).kind = "section"
    THEN IF inside THEN <<>> ELSE section_lines(Tail(lines), header, FALSE)
    ELSE IF inside
    THEN <<Head(lines)>> \o section_lines(Tail(lines), header, TRUE)
    ELSE section_lines(Tail(lines), header, FALSE)

\* get_remote_url on the text: the first url line of the section
get_remote_url_text(config, name) ==
    LET urls == SelectSeq(section_lines(config, SectionLine("remote " \o name),
                                        FALSE),
                          LAMBDA l : l.kind = "url")
    IN IF urls = <<>> THEN "absent" ELSE urls[1].val

\* the config that the last call of add_remote left
ConfigNow == IF ret.op = "add_remote_text" THEN ret.config ELSE InitConfig

\* add_remote returns, seen on the text of the config
AddRemoteText(name, url) ==
    /\ Called(FALSE)
    /\ ret' = [op |-> "add_remote_text", ok |-> TRUE, name |-> name,
               url |-> url, before |-> ConfigNow,
               config |-> add_remote_text(ConfigNow, name, url)]
    /\ UNCHANGED <<commits, have, refs, head, headId, index, wt, tracking,
                   rebase, cfgUrl, alt, app, remoteMain, orphan, edits, advances>>

NextConfig ==
    \E n \in RemoteNames, u \in Urls \ {"absent"} : AddRemoteText(n, u)

\* a repository right after init_repository
InitAfterInit == Init /\ commits = <<>>

SpecConfig == InitAfterInit /\ [][NextConfig]_vars

\* ---------------------------------------------------------------- main.rs / lib.rs
\* close requests the user can make in one run
MaxCloseRequests == 3

\* the callback of on_window_event returned at "if IS_CLOSING.load(..)":
\* close is not prevented for this request, so the window closes
closing_already(A) == [A EXCEPT !.loop = "idle", !.window = "closed"]

\* the callback goes on without setting IS_CLOSING
spawn_without_flag(A) ==
    [A EXCEPT !.loop = "idle", !.prevented = TRUE,
              !.spawned = @ + 1, !.running = @ + 1]

\* the rest of the callback: IS_CLOSING.store(true), api.prevent_close(),
\* spawn of the task that runs handle_window_close and then exits
flag_set_and_spawned(A) ==
    [A EXCEPT !.closing = TRUE, !.loop = "idle", !.prevented = TRUE,
              !.spawned = @ + 1, !.running = @ + 1]

AppQuiet ==
    UNCHANGED <<commits, have, refs, head, headId, index, wt, tracking, rebase,
                cfgUrl, alt, remoteMain, ret, orphan, edits, advances, ops,
                faults>>

\* the user asks the open window to close: a CloseRequested event is queued
CloseRequested ==
    /\ app.window = "open" /\ ~app.exited
    /\ app.seen < MaxCloseRequests
    /\ app' = [app EXCEPT !.requests = @ + 1, !.seen = @ + 1]
    /\ AppQuiet

\* the event loop takes a CloseRequested event and runs the callback up to
\* the load of IS_CLOSING
CallbackLoads ==
    /\ app.loop = "idle" /\ app.requests > 0 /\ ~app.exited
    /\ app' = IF app.closing
              THEN closing_already([app EXCEPT !.requests = @ - 1])
              ELSE [app EXCEPT !.requests = @ - 1, !.loop = "loaded"]
    /\ AppQuiet

\* the callback runs from the store of IS_CLOSING to its end
CallbackSpawns ==
    /\ app.loop = "loaded" /\ ~app.exited
    /\ app' = flag_set_and_spawned(app)
    /\ AppQuiet

\* a spawned task runs handle_window_close to its end
HandlerFinishes(token, fail, net) ==
    /\ app.running > 0 /\ ~app.exited
    /\ handle_window_close(token, fail, net)
    /\ app' = [app EXCEPT !.running = @ - 1, !.finished = @ + 1]

\* the task goes on to app_handle.exit(0)
HandlerExits ==
    /\ app.finished > 0 /\ ~app.exited
    /\ app' = [app EXCEPT !.exited = TRUE, !.window = "closed"]
    /\ AppQuiet

\* the only window has closed: the run loop ends and the process exits,
\* with the tasks that were running
WindowClosed ==
    /\ app.window = "closed" /\ ~app.exited
    /\ app' = [app EXCEPT !.exited = TRUE]
    /\ AppQuiet

NextApp ==
    \/ \E p \in VisiblePaths, c \in Contents : WriteFile(p, c)
    \/ \E u \in {"https", "ssh"} : AddRemote(u)
    \/ CloseRequested
    \/ CallbackLoads
    \/ CallbackSpawns
    \/ \E t \in BOOLEAN, f \in {"none", "index"}, n \in {"ok", "down"} :
          HandlerFinishes(t, f, n)
    \/ HandlerExits
    \/ WindowClosed

SpecApp == Init /\ [][NextApp]_vars

\* ---------------------------------------------------------------- git.rs, trees of nested paths
\* index entries held when a tree is built
MaxEntries == 3

\* a path is the sequence of its characters
Slash == "/"
Names == {<<"a">>, <<"a", "b">>}
TreePaths ==
    Names
    \cup {d \o <<Slash>> \o f : d \in Names, f \in Names}
    \cup {d \o <<Slash>> \o e \o <<Slash>> \o f :
            d \in Names, e \in Names, f \in Names}

\* the byte of a character
CharRank(c) == CASE c = "/" -> 47 [] c = "a" -> 97 [] c = "b" -> 98

RECURSIVE str_less(_, _)
\* Ord for strings: byte by byte, a proper prefix is the smaller one
str_less(s, t) ==
    IF t = <<>> THEN FALSE
    ELSE IF s = <<>> THEN TRUE
    ELSE IF Head(s) # Head(t) THEN CharRank(Head(s)) < CharRank(Head(t))
    ELSE str_less(Tail(s), Tail(t))

RECURSIVE split(_)
\* path_str.split('/'): the parts between the separators, at least one
split(s) ==
    IF \A i \in 1..Len(s) : s[i] # Slash THEN <<s>>
    ELSE LET i == CHOOSE k \in 1..Len(s) :
                      s[k] = Slash /\ \A j \in 1..(k - 1) : s[j] # Slash
         IN <<SubSeq(s, 1, i - 1)>> \o split(SubSeq(s, i + 1, Len(s)))

RECURSIVE join(_)
\* parts.join("/")
join(parts) ==
    IF parts = <<>> THEN <<>>
    ELSE IF Len(parts) = 1 THEN parts[1]
    ELSE parts[1] \o <<Slash>> \o join(Tail(parts))

starts_with(s, p) == Len(p) <= Len(s) /\ SubSeq(s, 1, Len(p)) = p

\* str::strip_prefix: Some(rest) or None
strip_prefix(s, p) ==
    IF starts_with(s, p)
    THEN [some |-> TRUE, rest |-> SubSeq(s, Len(p) + 1, Len(s))]
    ELSE [some |-> FALSE, rest |-> <<>>]

RECURSIVE insert_by_path(_, _)
insert_by_path(e, s) ==
    IF s = <<>> THEN <<e>>
    ELSE IF ~str_less(e.path, Head(s).path)
         THEN <<Head(s)>> \o insert_by_path(e, Tail(s))
         ELSE <<e>> \o s

RECURSIVE sort_index(_)
\* the index is kept sorted by path (sort_entries, stable)
sort_index(s) ==
    IF s = <<>> THEN <<>>
    ELSE insert_by_path(s[Len(s)], sort_index(SubSeq(s, 1, Len(s) - 1)))

RECURSIVE insert_by_filename(_, _)
insert_by_filename(e, s) ==
    IF s = <<>> THEN <<e>>
    ELSE IF ~str_less(e.filename, Head(s).filename)
         THEN <<Head(s)>> \o insert_by_filename(e, Tail(s))
         ELSE <<e>> \o s

RECURSIVE sort_by_filename(_)
\* tree_entries.sort_by(|a, b| a.filename.cmp(&b.filename)), stable
sort_by_filename(s) ==
    IF s = <<>> THEN <<>>
    ELSE insert_by_filename(s[Len(s)],
                            sort_by_filename(SubSeq(s, 1, Len(s) - 1)))

\* the directory part and the file name of an index path: "" for a root file
dir_path_of(path) ==
    join(SubSeq(split(path), 1, Len(split(path)) - 1))

filename_of(path) == split(path)[Len(split(path))]

\* the entries of one directory, in index order
entries_in(idx, d) ==
    LET own == SelectSeq(idx, LAMBDA e : dir_path_of(e.path) = d)
    IN [i \in 1..Len(own) |->
          [filename |-> filename_of(own[i].path), kind |-> "blob",
           oid |-> own[i].oid, entries |-> <<>>]]

\* the first loop: the BTreeMap from directory path to the entries pushed
\* for it, one per index entry
dir_trees(idx) ==
    [d \in {dir_path_of(idx[i].path) : i \in DOMAIN idx} |->
        entries_in(idx, d)]

\* sub_path seen from dir_path: everything for the root, else what follows
\* "dir_path/", or nothing
relative_path(dir_path, sub_path) ==
    IF dir_path = <<>> THEN [some |-> TRUE, rest |-> sub_path]
    ELSE IF ~starts_with(sub_path, dir_path) THEN [some |-> FALSE, rest |-> <<>>]
    ELSE strip_prefix(sub_path, dir_path \o <<Slash>>)

\* the HashSet of first-level names under dir_path, over all keys of
\* dir_trees but dir_path itself
direct_subdirs(dir_path, dt) ==
    {split(relative_path(dir_path, k).rest)[1] :
        k \in {k \in (DOMAIN dt) \ {dir_path} :
                 relative_path(dir_path, k).some}}

RECURSIVE SeqOfNames(_)
SeqOfNames(S) ==
    IF S = {} THEN <<>>
    ELSE LET x == CHOOSE y \in S : \A z \in S : y = z \/ str_less(y, z)
         IN <<x>> \o SeqOfNames(S \ {x})

subdir_path(dir_path, subdir_name) ==
    IF dir_path = <<>> THEN subdir_name
    ELSE dir_path \o <<Slash>> \o subdir_name

RECURSIVE create_tree_recursive(_, _)
\* the tree object of dir_path, as the sequence of its entries: one tree
\* entry per direct subdirectory, then the files of the directory, sorted
create_tree_recursive(dir_path, dt) ==
    LET subs == SeqOfNames(direct_subdirs(dir_path, dt))
        trees == [i \in 1..Len(subs) |->
                    [filename |-> subs[i], kind |-> "tree", oid |-> 0,
                     entries |-> create_tree_recursive(
                                     subdir_path(dir_path, subs[i]), dt)]]
        files == IF dir_path \in DOMAIN dt THEN dt[dir_path] ELSE <<>>
    IN sort_by_filename(trees \o files)

\* create_tree_from_index_entries with directories: the root tree
root_tree(idx) == create_tree_recursive(<<>>, dir_trees(idx))

\* the index and the tree built from it
TreeRet(idx, tree) ==
    [op |-> "write_tree", ok |-> TRUE, index |-> idx, tree |-> tree]

IndexNow == IF ret.op = "write_tree" THEN ret.index ELSE <<>>

\* one more entry is in the index when the next commit builds its tree.
\* add_all_files_to_index pushes its entries onto the ones the index file
\* held, so the path of the entry can be in the index already
WriteTree(path, oid) ==
    /\ Len(IndexNow) < MaxEntries
    /\ \E idx \in {sort_index(IndexNow \o <<Entry(path, oid)>>)} :
          \E tree \in {root_tree(idx)} : ret' = TreeRet(idx, tree)
    /\ UNCHANGED <<commits, have, refs, head, headId, index, wt, tracking,
                   rebase, cfgUrl, alt, app, remoteMain, orphan, edits,
                   advances, ops, faults>>

NextTree == \E p \in TreePaths, c \in Contents : WriteTree(p, c)

SpecTree == InitAfterInit /\ [][NextTree]_vars

\* ---------------------------------------------------------------- crypto.rs
\* lengths that the code checks: a key of AES-256, the nonce of AES-GCM
KeyLen   == 32
NonceLen == 12
\* scale of the cipher: values of a byte, bytes of the authentication tag,
\* longest plaintext
ByteMod == 3
TagLen  == 1
MaxText == 2

\* the sequence of n bytes b
Fill(n, b) == [i \in 1..n |-> b]

RECURSIVE SumBytes(_)
SumBytes(bytes) ==
    IF bytes = <<>> THEN 0 ELSE Head(bytes) + SumBytes(Tail(bytes))

\* bytes of a str: every byte but the highest value, which stands for a
\* byte that no UTF-8 text holds
TextBytes == 0..(ByteMod - 2)
from_utf8_ok(bytes) == \A i \in 1..Len(bytes) : bytes[i] \in TextBytes

\* Aes256Gcm as a stream cipher with a tag: the key stream depends on key,
\* nonce and position, the tag on key, nonce and the encrypted bytes
key_stream(key, nonce, i) == (SumBytes(key) + 2 * SumBytes(nonce) + i) % ByteMod
gcm_tag(key, nonce, data) ==
    Fill(TagLen, (1 + SumBytes(key) + SumBytes(nonce) + 2 * SumBytes(data)
                    + Len(data)) % ByteMod)

\* cipher.encrypt(&nonce, plaintext): the encrypted bytes, then the tag
cipher_encrypt(key, nonce, plain) ==
    LET data == [i \in 1..Len(plain) |->
                    (plain[i] + key_stream(key, nonce, i)) % ByteMod]
    IN data \o gcm_tag(key, nonce, data)

\* cipher.decrypt(nonce, encrypted_data): an error when the tag is missing
\* or is not the tag of the data under this key and nonce
cipher_decrypt(key, nonce, encrypted) ==
    IF Len(encrypted) < TagLen THEN [ok |-> FALSE, bytes |-> <<>>]
    ELSE LET data == SubSeq(encrypted, 1, Len(encrypted) - TagLen)
             tag  == SubSeq(encrypted, Len(encrypted) - TagLen + 1,
                            Len(encrypted))
         IN IF tag # gcm_tag(key, nonce, data)
            THEN [ok |-> FALSE, bytes |-> <<>>]
            ELSE [ok |-> TRUE,
                  bytes |-> [i \in 1..Len(data) |->
                     (data[i] + ByteMod - key_stream(key, nonce, i)) % ByteMod]]

\* an encryption that leaves the nonce out of its result
encrypt_without_nonce(plaintext, key, nonce) ==
    IF Len(key) # KeyLen THEN [ok |-> FALSE, bytes |-> <<>>]
    ELSE [ok |-> TRUE, bytes |-> cipher_encrypt(key, nonce, plaintext)]

\* encrypt_content(plaintext, key), nonce being the one the generator drew
encrypt_content(plaintext, key, nonce) ==
    IF Len(key) # KeyLen THEN [ok |-> FALSE, bytes |-> <<>>]
    ELSE [ok |-> TRUE, bytes |-> nonce \o cipher_encrypt(key, nonce, plaintext)]

\* decrypt_content(ciphertext, key)
decrypt_content(ciphertext, key) ==
    IF Len(key) # KeyLen THEN [ok |-> FALSE, bytes |-> <<>>]
    ELSE IF Len(ciphertext) < NonceLen THEN [ok |-> FALSE, bytes |-> <<>>]
    ELSE LET nonce_bytes    == SubSeq(ciphertext, 1, NonceLen)
             encrypted_data == SubSeq(ciphertext, NonceLen + 1, Len(ciphertext))
             plaintext_bytes == cipher_decrypt(key, nonce_bytes, encrypted_data)
         IN IF ~plaintext_bytes.ok THEN [ok |-> FALSE, bytes |-> <<>>]
            ELSE IF ~from_utf8_ok(plaintext_bytes.bytes)
            THEN [ok |-> FALSE, bytes |-> <<>>]
            ELSE plaintext_bytes

\* the inputs: keys one byte short, right and one byte long; nonces; texts;
\* byte strings shorter than a nonce and as long as one
Keys == {Fill(n, b) : n \in {KeyLen - 1, KeyLen, KeyLen + 1}, b \in 0..1}
Nonces == {Fill(NonceLen, b) : b \in 0..(ByteMod - 1)}
             \cup {[Fill(NonceLen, 0) EXCEPT ![1] = 1]}
Texts == UNION {[1..n -> TextBytes] : n \in 0..MaxText}
ShortBlobs == {Fill(n, 0) : n \in {0, 1, NonceLen - 1, NonceLen}}

\* the record of a call of crypto.rs that returned
CryptoRet(op, key, text, blob, ok) ==
    [op |-> op, key |-> key, text |-> text, blob |-> blob, ok |-> ok]

CryptoQuiet ==
    UNCHANGED <<commits, have, refs, head, headId, index, wt, tracking, rebase,
                cfgUrl, alt, app, remoteMain, orphan, edits, advances, ops, faults>>

\* encrypt_content returns
Encrypt(plaintext, key, nonce) ==
    /\ \E out \in {encrypt_content(plaintext, key, nonce)} :
          ret' = CryptoRet("encrypt", key, plaintext, out.bytes, out.ok)
    /\ CryptoQuiet

\* decrypt_content returns for the bytes that the last call left
Decrypt(key) ==
    /\ ret.op \in {"encrypt", "bytes"}
    /\ \E out \in {decrypt_content(ret.blob, key)} :
          ret' = CryptoRet("decrypt", key, out.bytes, ret.blob, out.ok)
    /\ CryptoQuiet

\* bytes that no encryption made are about to be decrypted
ForeignBytes(blob) ==
    /\ ret.op # "bytes"
    /\ ret' = CryptoRet("bytes", <<>>, <<>>, blob, TRUE)
    /\ CryptoQuiet

NextCrypto ==
    \/ \E p \in Texts, k \in Keys, n \in Nonces : Encrypt(p, k, n)
    \/ \E k \in Keys : Decrypt(k)
    \/ \E b \in ShortBlobs : ForeignBytes(b)

\* no call of crypto.rs has returned; the repository plays no part
InitCrypto == Init /\ commits = <<>>

SpecCrypto == InitCrypto /\ [][NextCrypto]_vars

\* ================================================================ claims
CountOf(idx, p) == Cardinality({i \in 1..Len(idx) : idx[i].path = p})

CommitReturnedOk == ret.op = "commit" /\ ret.ok

\* C1: a commit whose tree equals its parent's creates no commit object:
\* two successful commits in a row with no file change in between return
\* the same id, and the history of the branch does not grow.
C1_NoOpCommitReturnsParent ==
    [][(CommitReturnedOk /\ ret'.op = "commit" /\ ret'.ok /\ wt' = wt)
          => /\ ret'.id = ret.id
             /\ Len(Chain(commits', head_id(Cur)')) = Len(Chain(commits, head_id(Cur)))]_vars

\* C2: after every successful commit the index holds exactly one entry for
\* each non-hidden file of the working tree and none for a path that is not
\* on disk.
C2_IndexMirrorsWorkingTree ==
    CommitReturnedOk =>
        \A p \in AllPaths :
            /\ (wt[p] # Absent /\ ~IsHidden(p)) => CountOf(index, p) = 1
            /\ wt[p] = Absent => CountOf(index, p) = 0

\* C3: a commit that fails leaves HEAD and every branch ref as they were,
\* and a branch ref only ever names a commit object that has been written.
C3_FailedCommitChangesNoRef ==
    /\ [][(ret'.op = "commit" /\ ~ret'.ok)
            => (refs' = refs /\ head' = head /\ headId' = headId)]_vars
    /\ [](\A b \in BranchNames : refs[b] # 0 => refs[b] \in have)

\* the entries of commit id's tree
EntrySet(C, id) == IF id = 0 THEN {} ELSE {C[id].tree[i] : i \in 1..Len(C[id].tree)}

\* the history of branch b holds the commit the interrupted commit wrote and
\* another commit with the same tree
HasDuplicateCommit(b) ==
    /\ orphan \in Ancestors(commits, refs[b])
    /\ \E id \in Ancestors(commits, refs[b]) \ {orphan} :
           EntrySet(commits, id) = EntrySet(commits, orphan)

\* C4: once a commit was interrupted between its object write and its ref
\* update, every later commit or sync returns with HEAD symbolic and with no
\* commit recorded twice in the history of draft or main.
C4_ConsistentAfterInterruptedCommit ==
    (orphan # 0 /\ ret.op \in {"commit", "sync"}) =>
        /\ head # Detached
        /\ ~HasDuplicateCommit("draft")
        /\ ~HasDuplicateCommit("main")

\* C5: when commit, sync (conflict handling included) or switch_to_branch has
\* returned, HEAD names a branch whose ref exists.
C5_HeadNamesExistingBranch ==
    ret.op \in {"commit", "sync", "switch"} =>
        /\ head # Detached
        /\ refs[head] # 0

\* C6: every branch ref (main, draft, conflict_<timestamp>) names a commit
\* that is in the local object store.
C6_BranchRefsNameExistingCommits ==
    \A b \in BranchNames : refs[b] # 0 => refs[b] \in have

\* a sync moved main to a fetched commit and kept the local one on a
\* conflict branch
C6_Witness ==
    /\ ret.op = "sync" /\ ret.conflict
    /\ refs[ret.branch] # 0
    /\ refs["main"] = tracking
    /\ refs[ret.branch] # refs["main"]
    /\ refs["draft"] \notin {0, refs["main"]}

\* C7: when a push has failed, inside sync or after the local commit of the
\* delete and rename commands, every commit that was reachable from a local
\* branch at the push is still reachable from one, and the delete and rename
\* commands report success.
C7_FailedPushKeepsLocalWork ==
    ret.push = "failed" =>
        /\ ret.atPush \subseteq Reachable(commits, refs)
        /\ ret.op \in {"delete_sync", "rename_sync"} => ret.ok

\* the push of a sync failed after the squash commit was made
C7_Witness ==
    /\ ret.op = "sync" /\ ret.push = "failed" /\ ~ret.ok
    /\ Cardinality(ret.atPush) >= 3
    /\ refs["main"] \notin {0, tracking}

\* C8: when fetch or push has returned, with a token or without one, the url
\* of the remote in the configuration does not hold the token.
C8_TokenNotInConfig ==
    ret.op \in {"fetch", "push"} => cfgUrl # "https_token"

\* C9: a sync that returns has_conflict = true leaves the rebase session
\* open.
C9_ConflictLeavesRebaseOpen ==
    (ret.op = "sync" /\ ret.ok /\ ret.conflict) => rebase # NoRebase

\* C10: a sync in which a rebase failed without a conflict returns the
\* error and leaves no rebase session open.
C10_RebaseFailureAbortsAndFails ==
    (ret.op = "sync" /\ ret.rebaseFailed) =>
        /\ ~ret.ok
        /\ rebase = NoRebase

\* this step is a call of sync_with_remote that returned
SyncStep == ret'.op = "sync" /\ ops' = ops + 1

\* C11: at most one rebase session is open, and a sync entered while a
\* session is open (left by an earlier failure) aborts it before anything
\* else: when that sync returns, a session is open only if it reports a
\* conflict of its own.
C11_StaleRebaseAbortedOnEntry ==
    [][(SyncStep /\ rebase # NoRebase)
          => (rebase' = NoRebase \/ ret'.conflict)]_vars

\* the tree of the commit main names, as path -> blob
MainTree == TreeOf(Cur, refs["main"], "first")

\* main is strictly behind the remote's main and draft holds no commit that
\* main lacks
OnlyBehind ==
    /\ refs["main"] # 0
    /\ refs["main"] # remoteMain
    /\ refs["main"] \in Ancestors(commits, remoteMain)
    /\ get_draft_commits_count(Cur) = 0

\* the paths whose content in the working tree is not committed
PendingPaths == {p \in AllPaths : wt[p] # MainTree[p]}

UpToDate ==
    /\ refs["main"] # 0
    /\ refs["main"] = remoteMain
    /\ tracking = remoteMain
    /\ get_draft_commits_count(Cur) = 0
    /\ rebase = NoRebase

\* C13: a sync entered with the local tip equal to the remote tip, during
\* which nothing fails, returns success and is a no-op: no ref moves, no
\* commit is created and nothing is pushed.
C13_UpToDateSyncIsNoOp ==
    [][(SyncStep /\ faults' = faults /\ UpToDate)
          => /\ ret'.ok /\ ~ret'.conflict
             /\ refs' = refs
             /\ commits' = commits
             /\ ret'.push = "none"]_vars

\* the commit that holds the device's latest work: draft's when draft has
\* commits that main lacks, else main's
LocalTip ==
    IF get_draft_commits_count(Cur) > 0 THEN refs["draft"] ELSE refs["main"]

\* the device has commits the remote lacks and the remote has nothing the
\* device lacks
AheadOnly ==
    /\ remoteMain # 0
    /\ tracking = remoteMain
    /\ rebase = NoRebase
    /\ LocalTip # remoteMain
    /\ remoteMain \in Ancestors(commits, LocalTip)
    /\ refs["main"] \in Ancestors(commits, LocalTip)
    \* the local commits changed some content, and their tree reads the same
    \* whichever of two entries of one name git uses
    /\ TreeOf(Cur, LocalTip, "first") = TreeOf(Cur, LocalTip, "last")
    /\ TreeOf(Cur, LocalTip, "first") # TreeOf(Cur, remoteMain, "first")

\* C14: a sync entered with local commits the remote lacks and a remote that
\* has not advanced, during which nothing fails, pushes and returns success
\* without a conflict; afterwards the remote's main equals the local main and
\* its tree holds the content of the local tip.
C14_AheadOnlySyncPublishes ==
    [][(SyncStep /\ faults' = faults /\ AheadOnly)
          => /\ ret'.ok /\ ~ret'.conflict
             /\ ret'.push = "ok"
             /\ remoteMain' = refs'["main"]
             /\ \E rule \in DupRules :
                   MapOf(commits'[remoteMain'].tree, rule)
                       = TreeOf(Cur, LocalTip, rule)]_vars

\* C15: with no remote configured, a sync during which nothing fails returns
\* success and changes nothing: no ref moves and no commit is created.
C15_NoRemoteSyncSucceeds ==
    [][(SyncStep /\ faults' = faults /\ cfgUrl = "absent")
          => /\ ret'.ok /\ ~ret'.conflict
             /\ refs' = refs
             /\ commits' = commits]_vars

\* the last operation was a sync that returned success without a conflict
\* and the remote has not changed since
Converged ==
    /\ ret.op = "sync" /\ ret.ok /\ ~ret.conflict
    /\ tracking = remoteMain

TwoDevices(x, y) ==
    /\ x # y
    /\ rebase = NoRebase
    /\ refs["main"] # 0 /\ refs["draft"] # 0 /\ remoteMain # 0
    /\ tracking = refs["main"]
    /\ commits[remoteMain].parent = refs["main"]
    /\ commits[refs["draft"]].parent = refs["main"]
    /\ \A rule \in DupRules :
          /\ TreeOf(Cur, remoteMain, rule)[x] # Absent
          /\ TreeOf(Cur, remoteMain, rule)
                = [TreeOf(Cur, refs["main"], rule) EXCEPT
                      ![x] = TreeOf(Cur, remoteMain, rule)[x]]
          /\ TreeOf(Cur, refs["main"], rule)[x] = Absent
          /\ TreeOf(Cur, refs["main"], rule)[y] = Absent
          /\ TreeOf(Cur, refs["draft"], rule)[y] # Absent
          /\ TreeOf(Cur, refs["draft"], rule)
                = [TreeOf(Cur, refs["main"], rule) EXCEPT
                      ![y] = TreeOf(Cur, refs["draft"], rule)[y]]
          /\ wt = TreeOf(Cur, refs["draft"], rule)

SamePathChanged(x) ==
    /\ rebase = NoRebase
    /\ refs["main"] # 0 /\ refs["draft"] # 0 /\ remoteMain # 0
    /\ tracking = refs["main"]
    /\ commits[remoteMain].parent = refs["main"]
    /\ commits[refs["draft"]].parent = refs["main"]
    /\ \A rule \in DupRules :
          /\ TreeOf(Cur, remoteMain, rule)
                = [TreeOf(Cur, refs["main"], rule) EXCEPT
                      ![x] = TreeOf(Cur, remoteMain, rule)[x]]
          /\ TreeOf(Cur, refs["draft"], rule)
                = [TreeOf(Cur, refs["main"], rule) EXCEPT
                      ![x] = TreeOf(Cur, refs["draft"], rule)[x]]
          /\ TreeOf(Cur, remoteMain, rule)[x] # TreeOf(Cur, refs["main"], rule)[x]
          /\ TreeOf(Cur, refs["draft"], rule)[x] # TreeOf(Cur, refs["main"], rule)[x]
          /\ TreeOf(Cur, refs["draft"], rule)[x] # TreeOf(Cur, remoteMain, rule)[x]
          /\ wt = TreeOf(Cur, refs["draft"], rule)

\* the files that the conflict information of a result names: SyncResult
\* carries conflict_branch, a branch name, and nothing else
ConflictPathsNamed(result) == {p \in AllPaths : result.branch = p}

\* C18: two devices changed the same path x of their common commit to
\* different content and the other one published first.  A sync of this
\* device during which nothing fails returns has_conflict = true, and the
\* conflict information of the result names exactly one file, x.
C18_SamePathConflictNamesTheFile ==
    [][\A x \in VisiblePaths :
          (SyncStep /\ faults' = faults /\ SamePathChanged(x))
             => /\ ret'.ok /\ ret'.conflict
                /\ ConflictPathsNamed(ret') = {x}]_vars

ContinueStep == ret'.op = "continue_sync" /\ ops' = ops + 1

\* the conflicts of a stopped sync were resolved, the last one by CopyBoth;
\* HEAD is still where the rebase stopped and the pick that had stopped is
\* the last one
ResolvedWithCopyBoth ==
    /\ ret.op = "resolve_conflict" /\ ret.ok /\ ret.choice = "CopyBoth"
    /\ rebase # NoRebase
    /\ head = Detached
    /\ rebase.unmerged = {}
    /\ Len(rebase.todo) = 1

\* C19: CopyBoth loses neither version.  A continue_sync that follows the
\* resolution of a conflicted path with CopyBoth returns success with
\* has_conflict = false, and the final tree holds the upstream version at
\* the original path and the local version at the sibling path.
C19_CopyBothKeepsBothVersions ==
    [][(ContinueStep /\ ResolvedWithCopyBoth)
          => /\ ret'.ok /\ ~ret'.conflict
             /\ rebase' = NoRebase
             /\ \E rule \in DupRules :
                   /\ MapOf(commits'[refs'["main"]].tree, rule)[ret.path]
                         = TreeOf(Cur, headId, rule)[ret.path]
                   /\ MapOf(commits'[refs'["main"]].tree, rule)[Sibling(ret.path)]
                         = TreeOf(Cur, Head(rebase.todo), rule)[ret.path]]_vars

\* continue_sync has returned after a CopyBoth: the user wrote one file, the
\* other device changed the same one, and main's tree holds two files with
\* different content on top of the other device's commit
C19_Witness ==
    /\ ret.op = "continue_sync" /\ ret.ok /\ ~ret.conflict
    /\ rebase = NoRebase
    /\ edits = 1 /\ advances = 1 /\ faults = 0
    /\ commits[refs["main"]].parent = remoteMain
    /\ \A p \in VisiblePaths : TreeOf(Cur, refs["main"], "first")[p] # Absent
    /\ TreeOf(Cur, refs["main"], "first")["a"]
          # TreeOf(Cur, refs["main"], "first")["b"]

AbortStep == ret'.op = "abort_sync" /\ ops' = ops + 1

\* C20: an abort_sync that follows a sync that returned has_conflict = true
\* leaves no rebase session open, puts main back on the commit it named
\* before the sync (the one the result's backup branch holds), and a
\* following status reports a clean working tree.
C20_AbortRestoresBranch ==
    [][(AbortStep /\ ret.op = "sync" /\ ret.ok /\ ret.conflict)
          => /\ rebase' = NoRebase
             /\ refs'["main"] = refs[ret.branch]
             /\ get_repository_status(Cur').is_clean]_vars

\* a remote is configured, its branch does not exist and this repository
\* has no commit
EmptyBothSides ==
    /\ cfgUrl # "absent"
    /\ remoteMain = 0
    /\ commits = <<>>
    /\ rebase = NoRebase

\* C21: first publish from an empty repository.  A sync entered with no
\* remote branch and no local commit, during which nothing fails,
\* establishes a root commit, pushes it and returns success.
C21_FirstPublishFromEmpty ==
    [][(SyncStep /\ faults' = faults /\ EmptyBothSides)
          => /\ ret'.ok /\ ~ret'.conflict
             /\ ret'.push = "ok"
             /\ refs'["main"] # 0
             /\ commits'[refs'["main"]].parent = 0
             /\ remoteMain' = refs'["main"]]_vars

\* this repository has no commit and the remote's branch has some
FreshDevice ==
    /\ cfgUrl # "absent"
    /\ remoteMain # 0
    /\ have = {}
    /\ \A b \in BranchNames : refs[b] = 0
    /\ wt = EmptyTree
    /\ rebase = NoRebase

\* C22: bootstrapping a fresh device.  A sync entered with no local commit
\* and a remote branch that has commits, during which nothing fails,
\* returns success, with main on the remote's tip and the working tree
\* holding the remote's tree.
C22_FreshDeviceBootstraps ==
    [][(SyncStep /\ faults' = faults /\ FreshDevice)
          => /\ ret'.ok /\ ~ret'.conflict
             /\ refs'["main"] = remoteMain
             /\ wt' = TreeOf(Cur, remoteMain, "first")]_vars

\* HEAD is detached at a commit that the branch b does not have yet and
\* that descends from b's tip
DetachedAhead(b) ==
    /\ head = Detached
    /\ refs[b] # 0
    /\ headId # refs[b]
    /\ refs[b] \in Ancestors(commits, headId)

\* C23: an operation that starts with HEAD detached at a descendant of the
\* tip of the branch it works on, and that makes HEAD name this branch,
\* leaves the detached commit in the history of the branch; when the
\* operation is a commit, the detached commit is the parent of the commit
\* it returns.
C23_DetachedHeadFastForwardsBranch ==
    [][\A b \in {"main", "draft"} :
          (DetachedAhead(b) /\ ops' = ops + 1 /\ head' = b)
             => /\ headId \in Ancestors(commits', refs'[b])
                /\ (ret'.op = "commit" /\ ret'.ok)
                      => commits'[ret'.id].parent = headId]_vars

\* C24: a fetch from the remote named N that succeeds leaves HEAD, every
\* local branch ref, the index and the working tree unchanged, and writes
\* no tracking ref outside refs/remotes/N/, for N = origin and for any
\* other name.
C24_FetchOnlyUpdatesOwnTrackingRefs ==
    [][(ret'.op = "fetch" /\ ret'.ok /\ ops' = ops + 1)
          => /\ head' = head /\ headId' = headId
             /\ refs' = refs
             /\ index' = index
             /\ wt' = wt
             /\ ret'.remote = "origin" => alt'.tracking = alt.tracking
             /\ ret'.remote = "backup" => tracking' = tracking]_vars

\* C25: push_to_remote returns the error about remote commits, distinct
\* from every other error, exactly when the push was refused as not
\* fast-forward; a refusal for another reason, a network or an
\* authentication failure never returns it.
C25_NonFastForwardErrorIsDistinct ==
    [][(ret'.op = "push" /\ ops' = ops + 1)
          => /\ ret'.ok <=> ret'.err = "none"
             /\ ret'.err = "not_fast_forward"
                   <=> ret'.cause = "non_fast_forward"]_vars

\* the tip that a commit advances: draft's, or main's when draft is yet to
\* be created from it; 0 in a repository without commits
AdvancedTip == IF refs["draft"] # 0 THEN refs["draft"] ELSE refs["main"]

\* the working tree holds content that the advanced tip does not record
ChangedContent ==
    IF AdvancedTip = 0 THEN wt # EmptyTree
    ELSE \A rule \in DupRules : TreeOf(Cur, AdvancedTip, rule) # wt

\* C26: a commit of changed content during which nothing fails succeeds and
\* returns a new commit whose parent is the previous tip of draft (no
\* parent in a repository without commits, where it is the root commit);
\* draft then points to the returned commit.
C26_CommitParentIsPreviousTip ==
    [][(ret'.op = "commit" /\ ops' = ops + 1 /\ faults' = faults
          /\ ChangedContent /\ rebase = NoRebase)
          => /\ ret'.ok
             /\ ret'.id \notin DOMAIN commits
             /\ commits'[ret'.id].parent = AdvancedTip
             /\ refs'["draft"] = ret'.id]_vars

\* C27: a commit that succeeds leaves HEAD symbolic at draft and draft at
\* the returned commit; main and every other branch ref are as before the
\* call, whatever HEAD named before it.
C27_CommitAdvancesOnlyDraft ==
    [][(ret'.op = "commit" /\ ret'.ok /\ ops' = ops + 1)
          => /\ head' = "draft"
             /\ refs'["draft"] = ret'.id
             /\ \A b \in BranchNames \ {"draft"} : refs'[b] = refs[b]]_vars

\* the first commit of a clone, whose HEAD named main: draft was created
\* from main and advanced, main stayed
C27_Witness ==
    /\ ret.op = "commit" /\ ret.ok /\ ops = 1
    /\ head = "draft" /\ refs["draft"] = ret.id
    /\ refs["main"] # 0
    /\ commits[ret.id].parent = refs["main"]

\* a file is on disk that the commit of HEAD does not record with that
\* content, or the other way round, however a tree with two entries for a
\* path is read
WorkingTreeDiffers ==
    \A rule \in DupRules :
        \E p \in VisiblePaths : wt[p] # TreeOf(Cur, head_id(Cur), rule)[p]

\* the working tree is what the commit of HEAD records, however read
WorkingTreeSame ==
    \A rule \in DupRules :
        \A p \in VisiblePaths : wt[p] = TreeOf(Cur, head_id(Cur), rule)[p]

\* C28: status reports has_changes = true exactly when the working tree
\* differs from the tree of HEAD's commit, is_clean is the negation of
\* has_changes, and the status asked right after a successful commit
\* reports is_clean = true.
C28_StatusComparesWorkingTreeWithHead ==
    [][(ret'.op = "status" /\ ops' = ops + 1)
          => /\ ret'.is_clean = ~ret'.has_changes
             /\ WorkingTreeDiffers => ret'.has_changes
             /\ WorkingTreeSame => ~ret'.has_changes
             /\ (ret.op = "commit" /\ ret.ok) => ret'.is_clean]_vars

\* C29: delete_file_with_git_sync is atomic over the deletion and the
\* commit: when it returns an error the file is still on disk and no commit
\* was created; when it returns Ok the file is gone and the commit it made
\* records the deletion.
C29_DeleteWithGitSyncIsAtomic ==
    [][(ret'.op = "delete_sync" /\ ops' = ops + 1)
          => /\ ~ret'.ok => (wt' = wt /\ commits' = commits)
             /\ ret'.ok =>
                   \E p \in VisiblePaths :
                      /\ wt[p] # Absent /\ wt'[p] = Absent
                      /\ ret'.id \notin DOMAIN commits
                      /\ \A rule \in DupRules :
                            TreeOf(Cur', ret'.id, rule)[p] = Absent]_vars

\* C30: when the window-close handler or a delete/rename-with-git-sync
\* command has created a commit and its push has succeeded, that commit is
\* contained in the remote branch that was pushed.
C30_PushOnlyPathsPublishTheirCommit ==
    [][(ret'.op \in {"close", "delete_sync", "rename_sync"} /\ ops' = ops + 1
          /\ ret'.id # 0 /\ ret'.push = "ok")
          => ret'.id \in Ancestors(commits', remoteMain')]_vars

\* C31: decrypt_content(encrypt_content(p, k), k) returns p for every
\* plaintext p and every key k of 32 bytes, whichever nonce was drawn;
\* encrypting or decrypting with a key that is not 32 bytes long, and
\* decrypting fewer than 12 bytes, return an error.
C31_EncryptionRoundTrips ==
    [][(ret'.op \in {"encrypt", "decrypt"})
          => /\ Len(ret'.key) # KeyLen => ~ret'.ok
             /\ (ret'.op = "encrypt" /\ Len(ret'.key) = KeyLen) => ret'.ok
             /\ (ret'.op = "decrypt" /\ Len(ret'.blob) < NonceLen) => ~ret'.ok
             /\ (ret'.op = "decrypt" /\ ret.op = "encrypt" /\ ret.ok
                   /\ ret'.key = ret.key)
                  => (ret'.ok /\ ret'.text = ret.text)]_vars

\* a text of two different bytes came back from its encryption under a
\* nonce that is not all zero
C31_Witness ==
    /\ ret.op = "decrypt" /\ ret.ok
    /\ Len(ret.key) = KeyLen
    /\ Len(ret.text) = 2 /\ ret.text[1] # ret.text[2]
    /\ SubSeq(ret.blob, 1, NonceLen) # Fill(NonceLen, 0)

\* C32: after a sync that returns success without a conflict, on the early
\* returns as well, draft and the synced branch point to the same commit
\* and HEAD is symbolic at draft.
C32_SuccessfulSyncLeavesDraftAtBranch ==
    [][(SyncStep /\ ret'.ok /\ ~ret'.conflict)
          => /\ head' = "draft"
             /\ refs'["draft"] # 0
             /\ refs'["draft"] = refs'["main"]]_vars

\* C33: when a sync during which nothing fails returns has_conflict = true,
\* the conflict branch named in the result exists and points to local work,
\* that is to a commit that the remote history does not hold, and every
\* commit that was reachable from a local branch before the sync is
\* reachable from one after it.
C33_ConflictBranchKeepsLocalWork ==
    [][(SyncStep /\ faults' = faults /\ ret'.ok /\ ret'.conflict)
          => /\ ret'.branch \in BranchNames
             /\ refs'[ret'.branch] # 0
             /\ refs'[ret'.branch] \notin Ancestors(commits', tracking')
             /\ Reachable(commits, refs) \subseteq Reachable(commits', refs')]_vars

\* C34: after a sync during which nothing fails returns has_conflict = true,
\* the synced branch is at the remote tracking tip, HEAD is symbolic at
\* that branch, and the working tree holds the tree of that commit.
C34_ConflictLeavesMainLineClean ==
    [][(SyncStep /\ faults' = faults /\ ret'.ok /\ ret'.conflict)
          => /\ refs'["main"] = tracking'
             /\ head' = "main"
             /\ \E rule \in DupRules :
                   \A p \in VisiblePaths :
                      wt'[p] = TreeOf(Cur', refs'["main"], rule)[p]]_vars

\* the commits in draft's history that main's history does not hold
DraftOnly == Ancestors(commits, refs["draft"]) \ Ancestors(commits, refs["main"])

\* C35: get_draft_commits_count returns the number of commits on draft that
\* are not on main: 0 when a branch is missing or both point to the same
\* commit, the number of commits of draft above main otherwise, also when
\* main is not an ancestor of draft.
C35_DraftCountIsCommitsNotOnMain ==
    [][(ret'.op = "draft_count" /\ ops' = ops + 1)
          => ret'.count = IF refs["draft"] = 0 \/ refs["main"] = 0 THEN 0
                          ELSE Cardinality(DraftOnly)]_vars

\* the last operation was a sync that squashed draft into main and then
\* failed at the push; the remote has not moved since
PushFailedAfterSquash ==
    /\ ret.op = "sync" /\ ~ret.ok /\ ret.push = "failed"
    /\ refs["main"] # 0 /\ refs["main"] # tracking
    /\ tracking = remoteMain
    /\ rebase = NoRebase

\* C36: after a sync that failed at the push step with draft already
\* squashed into the branch, a sync with the transport working and no new
\* remote commit returns success, and the remote branch then contains the
\* local work.
C36_SyncAfterFailedPushPublishes ==
    [][(SyncStep /\ faults' = faults /\ PushFailedAfterSquash)
          => /\ ret'.ok /\ ~ret'.conflict
             /\ refs["main"] \in Ancestors(commits', remoteMain')]_vars

\* the section headers of a config
SectionsOf(config) ==
    {config[i] : i \in {j \in 1..Len(config) : config[j].kind = "section"}}

\* the settings of a section, blank lines left out
SettingsOf(config, header) ==
    SelectSeq(section_lines(config, header, FALSE), LAMBDA l : l.kind # "blank")

\* C37: after add_remote(name, url) the section of the remote holds exactly
\* one url line, which is the url given, wherever the section sits in the
\* config; every other section is unchanged; a second call with the same
\* arguments changes nothing.
C37_AddRemoteReplacesUrl ==
    [][(ret'.op = "add_remote_text" /\ ops' = ops + 1)
          => /\ SelectSeq(section_lines(ret'.config,
                                        SectionLine("remote " \o ret'.name),
                                        FALSE),
                          LAMBDA l : l.kind = "url")
                   = <<UrlLine(ret'.url)>>
             /\ get_remote_url_text(ret'.config, ret'.name) = ret'.url
             /\ \A h \in SectionsOf(ret'.before)
                        \ {SectionLine("remote " \o ret'.name)} :
                   SettingsOf(ret'.config, h) = SettingsOf(ret'.before, h)
             /\ add_remote_text(ret'.config, ret'.name, ret'.url)
                   = ret'.config]_vars

\* C38: however many CloseRequested events arrive, and however their
\* handling interleaves with the running handler, handle_window_close is
\* spawned at most once per process.
C38_CloseHandlerSpawnedOnce == app.spawned <= 1

\* three close requests were handled and one handler was spawned
C38_Witness ==
    /\ app.seen = MaxCloseRequests /\ app.requests = 0 /\ app.loop = "idle"
    /\ app.spawned = 1

\* C39: from the first close request on, the window does not close and the
\* process does not exit before a close-time handler has finished, also
\* when further close requests arrive while the handler runs.
C39_NoCloseBeforeHandlerFinished ==
    (app.window = "closed" \/ app.exited) => app.finished > 0

\* the other half of C39: once the handler has finished the process exits
\* (the task is scheduled until it ends)
SpecAppLive == SpecApp /\ WF_vars(HandlerExits)

HandlerFinishedLeadsToExit == (app.finished > 0) ~> app.exited

RECURSIVE Flatten(_, _)
\* the (path, blob) pairs of a tree, read directory by directory
Flatten(tree, prefix) ==
    UNION {IF tree[i].kind = "blob"
           THEN {Entry(subdir_path(prefix, tree[i].filename), tree[i].oid)}
           ELSE Flatten(tree[i].entries, subdir_path(prefix, tree[i].filename)) :
           i \in DOMAIN tree}

RECURSIVE NamesOnce(_)
NamesOnce(tree) ==
    /\ \A i, j \in DOMAIN tree : i # j => tree[i].filename # tree[j].filename
    /\ \A i \in DOMAIN tree :
          tree[i].kind = "tree" => NamesOnce(tree[i].entries)

TreeIsExact ==
    /\ Flatten(ret.tree, <<>>) = {ret.index[i] : i \in DOMAIN ret.index}
    /\ NamesOnce(ret.tree)

\* C40: the root tree built for a commit flattens to exactly the entries of
\* the index, and no directory of it holds a name twice.
C40_TreeRepresentsIndex == ret.op = "write_tree" => TreeIsExact

\* no path is in the index twice, and no path is both a file and a directory
OnePathOnce ==
    \A i, j \in DOMAIN ret.index :
       i # j => /\ ret.index[i].path # ret.index[j].path
                /\ ~starts_with(ret.index[j].path,
                                ret.index[i].path \o <<Slash>>)

\* what holds of C40: the tree is exact for an index of distinct paths
TreeOfDistinctPathsIsExact ==
    (ret.op = "write_tree" /\ OnePathOnce) => TreeIsExact

\* three distinct paths: a directory with subdirectories only, whose name is
\* a prefix of its neighbour's
DistinctPathsSeen ==
    /\ ret.op = "write_tree" /\ OnePathOnce /\ Len(ret.index) = MaxEntries
    /\ \E i, j \in DOMAIN ret.index :
          /\ Len(split(ret.index[i].path)) = 3
          /\ <<"a">> \notin DOMAIN dir_trees(ret.index)
          /\ split(ret.index[i].path)[1] = <<"a">>
          /\ split(ret.index[j].path)[1] = <<"a", "b">>

====
